---- MODULE Spec2Model ----
(***************************************************************************)
(* caching-dev-proxy: the byte store (DiskCache), the response codec,      *)
(* the key deriver (HTTPCache.GenerateKey), the rule evaluator             *)
(* (shouldBeCached / ConfigRule.Match) and the request/response filter     *)
(* chain of the proxy engine (Server.setupProxyHandlers).                  *)
(*                                                                         *)
(* Strings are sequences of atoms (an atom stands for one or more          *)
(* characters), so that prefix, suffix and trimming are computed and not   *)
(* assumed.  Time is a natural-number clock; a file's mtime is the clock   *)
(* value of its last write.                                                *)
(***************************************************************************)
EXTENDS Integers, Sequences, FiniteSets, TLC

VARIABLES
    now,        \* wall clock (time.Now)
    ttl,        \* DiskCache.ttl, 0 = never expire
    cache,      \* files under DiskCache.cacheDir: key -> file
    mode,       \* config.Rules.Mode
    rules,      \* Server.rules, ordered
    slots,      \* one record per connection task: the request in flight
    last,       \* the request completed last, as it ended
    nreq,       \* number of requests accepted so far
    op,         \* last byte-store operation and what it returned
    ev,         \* last rule evaluation and what it returned
    kd,         \* last two key derivations and what they returned
    cd,         \* last codec call and what it returned
    cs,         \* the cert store, the sessions calling Fetch and what they got
    tun         \* the tunnel configuration and the connection handled last

vars == <<now, ttl, cache, mode, rules, slots, last, nreq, op, ev, kd, cd, cs, tun>>

----------------------------------------------------------------------------
(* Bounds *)

MaxTime == 2
MaxReqs == 3
NumSlots == 2
MaxEvals == 2
MaxMints == 3

(* The TTL of the configuration when it is not zero, in clock ticks. *)
TTLTicks == 1

----------------------------------------------------------------------------
(* Strings *)

\* strings.HasPrefix
HasPrefix(s, p) == Len(p) <= Len(s) /\ SubSeq(s, 1, Len(p)) = p

\* strings.HasSuffix
HasSuffix(s, x) == Len(x) <= Len(s) /\ SubSeq(s, Len(s) - Len(x) + 1, Len(s)) = x

\* strings.TrimSuffix
TrimSuffix(s, x) == IF HasSuffix(s, x) THEN SubSeq(s, 1, Len(s) - Len(x)) ELSE s

\* strings.Trim(s, "/")
RECURSIVE TrimLeft(_, _)
TrimLeft(s, c) == IF s # <<>> /\ Head(s) = c THEN TrimLeft(Tail(s), c) ELSE s

RECURSIVE TrimRight(_, _)
TrimRight(s, c) ==
    IF s # <<>> /\ s[Len(s)] = c THEN TrimRight(SubSeq(s, 1, Len(s) - 1), c) ELSE s

Trim(s, c) == TrimRight(TrimLeft(s, c), c)

\* strings.ToUpper on the method names in use
ToUpper(m) ==
    CASE m = "get" -> "GET"
      [] m = "Get" -> "GET"
      [] m = "post" -> "POST"
      [] OTHER -> m

\* strings.EqualFold
EqualFold(a, b) == ToUpper(a) = ToUpper(b)

\* strconv.Itoa for a status code: its three decimal digits
Digit(d) == <<"0", "1", "2", "3", "4", "5", "6", "7", "8", "9">>[d + 1]

Itoa(n) == <<Digit(n \div 100), Digit((n \div 10) % 10), Digit(n % 10)>>

----------------------------------------------------------------------------
(* Requests and responses *)

ReqHeaderNames == {"Accept", "X-Cache-Bypass"}

RespHeaderNames == {"Content-Length", "Set-Cookie", "X-Cache", "X-Cache-File"}

NoReqHeader == [h \in ReqHeaderNames |-> <<>>]

NoRespHeader == [h \in RespHeaderNames |-> <<>>]

\* http.Header.Get: the first value of the name, "" when there is none
HeaderGet(header, name) ==
    IF name \in DOMAIN header /\ header[name] # <<>> THEN header[name][1] ELSE ""

\* http.Header.Set: replaces every value of the name by one value
HeaderSet(header, name, value) == [header EXCEPT ![name] = <<value>>]

\* http.Header.Del
HeaderDel(header, name) == [header EXCEPT ![name] = <<>>]

\* a nil *http.Response
NilResp == [status |-> 0, header |-> NoRespHeader, body |-> <<>>]

IsNil(resp) == resp.status = 0

\* url.URL.String
URLString(requ) ==
    <<requ.scheme, "://">> \o requ.host \o requ.path
        \o (IF requ.query # <<>> THEN <<"?">> \o requ.query ELSE <<>>)

----------------------------------------------------------------------------
(* Rule evaluator *)

\* config.MatchesStatusCode
MatchesStatusCode(statusCode, pattern) ==
    LET statusStr == Itoa(statusCode) IN
    IF pattern = statusStr THEN TRUE
    ELSE IF HasSuffix(pattern, <<"x", "x">>) /\ Len(pattern) = 3
         THEN HasPrefix(statusStr, SubSeq(pattern, 1, 1))
         ELSE FALSE

\* variant: the method is compared with == instead of strings.EqualFold
MatchCaseSensitive(rule, requ, resp) ==
    IF ~HasPrefix(URLString(requ), rule.BaseURI) THEN "no"
    ELSE IF ~(\E i \in 1..Len(rule.Methods) : rule.Methods[i] = requ.method)
         THEN "no"
    ELSE IF Len(rule.StatusCodes) > 0
         THEN IF IsNil(resp) THEN "panic"
              ELSE IF \E i \in 1..Len(rule.StatusCodes) :
                          MatchesStatusCode(resp.status, rule.StatusCodes[i])
                   THEN "yes" ELSE "no"
    ELSE "yes"

\* ConfigRule.Match: "yes", "no", or "panic" when it dereferences a nil response
Match(rule, requ, resp) ==
    IF ~HasPrefix(URLString(requ), rule.BaseURI) THEN "no"
    ELSE IF ~(\E i \in 1..Len(rule.Methods) : EqualFold(rule.Methods[i], requ.method))
         THEN "no"
    ELSE IF Len(rule.StatusCodes) > 0
         THEN IF IsNil(resp) THEN "panic"
              ELSE IF \E i \in 1..Len(rule.StatusCodes) :
                          MatchesStatusCode(resp.status, rule.StatusCodes[i])
                   THEN "yes" ELSE "no"
    ELSE "yes"

\* variant: the loop without its break, every rule is consulted
RECURSIVE RulesLoopNoBreak(_, _, _, _)
RulesLoopNoBreak(rs, i, requ, resp) ==
    IF i > Len(rs)
    THEN [matched |-> FALSE, consulted |-> Len(rs), panicked |-> FALSE]
    ELSE LET m == Match(rs[i], requ, resp)
             rest == RulesLoopNoBreak(rs, i + 1, requ, resp)
         IN  [matched |-> m = "yes" \/ rest.matched, consulted |-> Len(rs),
              panicked |-> m = "panic" \/ rest.panicked]

\* the loop of Server.shouldBeCached from rule i on: whether a rule matched,
\* and how many rules it consulted before it stopped
RECURSIVE RulesLoop(_, _, _, _)
RulesLoop(rs, i, requ, resp) ==
    IF i > Len(rs)
    THEN [matched |-> FALSE, consulted |-> Len(rs), panicked |-> FALSE]
    ELSE LET m == Match(rs[i], requ, resp) IN
         IF m = "panic" THEN [matched |-> FALSE, consulted |-> i, panicked |-> TRUE]
         ELSE IF m = "yes" THEN [matched |-> TRUE, consulted |-> i, panicked |-> FALSE]
         ELSE RulesLoop(rs, i + 1, requ, resp)

\* variant: the mode test is taken the other way round
shouldBeCachedSwapped(rs, md, requ, resp) ==
    LET matched == RulesLoop(rs, 1, requ, resp).matched IN
    IF md = "whitelist" THEN ~matched ELSE matched

\* Server.shouldBeCached
shouldBeCached(rs, md, requ, resp) ==
    LET matched == RulesLoop(rs, 1, requ, resp).matched IN
    IF md = "whitelist" THEN matched ELSE ~matched

----------------------------------------------------------------------------
(* Key deriver *)

\* hex.EncodeToString(sha256.Sum256(x))[:8], kept symbolic: a function of x
\* that tells different inputs apart
Hash8(x) == <<"sha8(">> \o x \o <<")">>

\* strings.Split(s, "/")
RECURSIVE Split(_)
Split(s) ==
    IF s = <<>> THEN << <<>> >>
    ELSE IF Head(s) = "/" THEN << <<>> >> \o Split(Tail(s))
    ELSE LET r == Split(Tail(s)) IN << <<Head(s)>> \o Head(r) >> \o Tail(r)

\* strings.Join(v, sep) over strings
RECURSIVE JoinStr(_, _)
JoinStr(ss, sep) ==
    IF ss = <<>> THEN <<>>
    ELSE IF Len(ss) = 1 THEN ss[1]
    ELSE ss[1] \o <<sep>> \o JoinStr(Tail(ss), sep)

\* the segment pass of filepath.Clean on a relative path
RECURSIVE CleanSegs(_, _)
CleanSegs(segs, acc) ==
    IF segs = <<>> THEN acc
    ELSE LET g == Head(segs) IN
         IF g = <<>> \/ g = <<".">> THEN CleanSegs(Tail(segs), acc)
         ELSE IF g = <<"..">>
              THEN IF acc # <<>> /\ acc[Len(acc)] # <<"..">>
                   THEN CleanSegs(Tail(segs), SubSeq(acc, 1, Len(acc) - 1))
                   ELSE CleanSegs(Tail(segs), Append(acc, g))
         ELSE CleanSegs(Tail(segs), Append(acc, g))

\* filepath.Clean
Clean(p) ==
    LET segs == CleanSegs(Split(p), <<>>) IN
    IF segs = <<>> THEN <<".">> ELSE JoinStr(segs, "/")

\* filepath.Join
Join(elems) ==
    LET nonEmpty == SelectSeq(elems, LAMBDA e : e # <<>>) IN
    IF nonEmpty = <<>> THEN <<>> ELSE Clean(JoinStr(nonEmpty, "/"))

\* variant: one more request header is hashed into the key
headersToHashAndBypass ==
    <<"Host", "Accept", "Accept-Encoding", "Accept-Language", "Content-Type", "X-Cache-Bypass">>

headersToHash == <<"Host", "Accept", "Accept-Encoding", "Accept-Language", "Content-Type">>

\* the headersStr loop of GenerateKey
RECURSIVE HeadersStr(_, _)
HeadersStr(header, i) ==
    IF i > Len(headersToHash) THEN <<>>
    ELSE LET k == headersToHash[i] IN
         (IF k \in DOMAIN header /\ header[k] # <<>>
          THEN <<k, ":">> \o JoinStr([j \in 1..Len(header[k]) |-> <<header[k][j]>>], ",")
                   \o <<"\n">>
          ELSE <<>>)
         \o HeadersStr(header, i + 1)

\* variant: the query hash is appended also for an empty query
GenerateKeyAlwaysQuery(request, closeFails) ==
    IF closeFails THEN [err |-> TRUE, key |-> <<>>, body |-> <<>>]
    ELSE
    LET headersStr == HeadersStr(request.header, 1)
        host       == TrimSuffix(TrimSuffix(request.host, <<":80">>), <<":443">>)
        pathParts  == IF request.path # <<>> /\ request.path # <<"/">>
                      THEN <<host, Trim(request.path, "/")>>
                      ELSE <<host>>
        filename   == <<request.method>>
                      \o (<<"_q">> \o Hash8(request.query))
                      \o (IF headersStr # <<>> THEN <<"_h">> \o Hash8(headersStr) ELSE <<>>)
                      \o (IF request.body # <<>> THEN <<"_b">> \o Hash8(request.body) ELSE <<>>)
                      \o <<".bin">>
    IN [err |-> FALSE, key |-> Join(Append(pathParts, filename)), body |-> request.body]

\* variant: only the :80 suffix is stripped from the host
GenerateKeyOnly80(request, closeFails) ==
    IF closeFails THEN [err |-> TRUE, key |-> <<>>, body |-> <<>>]
    ELSE
    LET headersStr == HeadersStr(request.header, 1)
        host       == TrimSuffix(request.host, <<":80">>)
        pathParts  == IF request.path # <<>> /\ request.path # <<"/">>
                      THEN <<host, Trim(request.path, "/")>>
                      ELSE <<host>>
        filename   == <<request.method>>
                      \o (IF request.query # <<>> THEN <<"_q">> \o Hash8(request.query) ELSE <<>>)
                      \o (IF headersStr # <<>> THEN <<"_h">> \o Hash8(headersStr) ELSE <<>>)
                      \o (IF request.body # <<>> THEN <<"_b">> \o Hash8(request.body) ELSE <<>>)
                      \o <<".bin">>
    IN [err |-> FALSE, key |-> Join(Append(pathParts, filename)), body |-> request.body]

\* HTTPCache.GenerateKey; closeFails: request.Body.Close() returns an error.
\* body: what a later read of request.Body gives (a non-empty body is put
\* back after it was read for the hash)
GenerateKey(request, closeFails) ==
    IF closeFails THEN [err |-> TRUE, key |-> <<>>, body |-> <<>>]
    ELSE
    LET headersStr == HeadersStr(request.header, 1)
        host       == TrimSuffix(TrimSuffix(request.host, <<":80">>), <<":443">>)
        pathParts  == IF request.path # <<>> /\ request.path # <<"/">>
                      THEN <<host, Trim(request.path, "/")>>
                      ELSE <<host>>
        filename   == <<request.method>>
                      \o (IF request.query # <<>> THEN <<"_q">> \o Hash8(request.query) ELSE <<>>)
                      \o (IF headersStr # <<>> THEN <<"_h">> \o Hash8(headersStr) ELSE <<>>)
                      \o (IF request.body # <<>> THEN <<"_b">> \o Hash8(request.body) ELSE <<>>)
                      \o <<".bin">>
    IN [err |-> FALSE, key |-> Join(Append(pathParts, filename)), body |-> request.body]

----------------------------------------------------------------------------
(* Response codec *)

PREFIX == <<"---HTTP-", "RESPONSE---\n">>

\* the header block httputil.DumpResponse writes: Content-Length from the
\* body length first, then the other headers by sorted name, values in order
RECURSIVE HeaderLines(_, _)
HeaderLines(name, values) ==
    IF values = <<>> THEN <<>>
    ELSE <<name, ": ", Head(values), "\r\n">> \o HeaderLines(name, Tail(values))

\* variant: only the first value of a repeated header is written
DumpResponseFirstValue(resp) ==
    <<"HTTP/1.1 ">> \o Itoa(resp.status) \o <<"\r\n">>
        \o HeaderLines("Content-Length", <<Digit(Len(resp.body))>>)
        \o HeaderLines("Set-Cookie", IF resp.header["Set-Cookie"] = <<>> THEN <<>>
                                      ELSE <<Head(resp.header["Set-Cookie"])>>)
        \o HeaderLines("X-Cache", resp.header["X-Cache"])
        \o HeaderLines("X-Cache-File", resp.header["X-Cache-File"])
        \o <<"\r\n">>
        \o resp.body

DumpResponse(resp) ==
    <<"HTTP/1.1 ">> \o Itoa(resp.status) \o <<"\r\n">>
        \o HeaderLines("Content-Length", <<Digit(Len(resp.body))>>)
        \o HeaderLines("Set-Cookie", resp.header["Set-Cookie"])
        \o HeaderLines("X-Cache", resp.header["X-Cache"])
        \o HeaderLines("X-Cache-File", resp.header["X-Cache-File"])
        \o <<"\r\n">>
        \o resp.body

\* httpcache.Serialize
Serialize(resp) == PREFIX \o DumpResponse(resp)

IsDigit(c) == \E d \in 0..9 : Digit(d) = c

DigitVal(c) == CHOOSE d \in 0..9 : Digit(d) = c

\* the header block of http.ReadResponse, up to the blank line
RECURSIVE ReadHeaders(_, _)
ReadHeaders(toks, header) ==
    IF toks = <<>> THEN [ok |-> FALSE, header |-> header, rest |-> <<>>]
    ELSE IF Head(toks) = "\r\n" THEN [ok |-> TRUE, header |-> header, rest |-> Tail(toks)]
    ELSE IF Len(toks) >= 4 /\ toks[1] \in RespHeaderNames /\ toks[2] = ": " /\ toks[4] = "\r\n"
         THEN ReadHeaders(SubSeq(toks, 5, Len(toks)),
                          [header EXCEPT ![toks[1]] = Append(@, toks[3])])
    ELSE [ok |-> FALSE, header |-> header, rest |-> <<>>]

\* the statuses http.ReadResponse gives no body: 1xx, 204 and 304
NoBodyStatus(status) == status \div 100 = 1 \/ status = 204 \/ status = 304

\* http.ReadResponse: status line, headers, then a body of Content-Length
\* bytes, none for a status that allows no body; complete = FALSE when the
\* input ends before the body does (the error then comes with the read of
\* the body, not with ReadResponse)
ReadResponse(b) ==
    IF ~(Len(b) >= 5 /\ b[1] = "HTTP/1.1 " /\ IsDigit(b[2]) /\ IsDigit(b[3]) /\ IsDigit(b[4])
            /\ b[5] = "\r\n")
    THEN [err |-> TRUE, resp |-> NilResp, complete |-> FALSE]
    ELSE LET h == ReadHeaders(SubSeq(b, 6, Len(b)), NoRespHeader)
             status == 100 * DigitVal(b[2]) + 10 * DigitVal(b[3]) + DigitVal(b[4])
             cl == HeaderGet(h.header, "Content-Length")
             n == IF NoBodyStatus(status) THEN 0
                  ELSE IF IsDigit(cl) THEN DigitVal(cl) ELSE Len(h.rest)
         IN  IF ~h.ok \/ status = 0 THEN [err |-> TRUE, resp |-> NilResp, complete |-> FALSE]
             ELSE [err |-> FALSE,
                   resp |-> [status |-> status, header |-> h.header,
                             body |-> SubSeq(h.rest, 1, IF n <= Len(h.rest) THEN n ELSE Len(h.rest))],
                   complete |-> n <= Len(h.rest)]

\* httpcache.Deserialize.  roomy: cap(b) >= len(PREFIX); the slice expression
\* b[0:len(PREFIX)] is checked against the capacity, so it panics on a slice
\* without that room and reads the zero bytes behind a shorter slice that
\* has it, which then differ from PREFIX.
Deserialize(b, roomy) ==
    IF Len(b) < Len(PREFIX) /\ ~roomy
    THEN [err |-> TRUE, panicked |-> TRUE, resp |-> NilResp, complete |-> FALSE]
    ELSE IF Len(b) < Len(PREFIX) \/ SubSeq(b, 1, Len(PREFIX)) # PREFIX
         THEN [err |-> TRUE, panicked |-> FALSE, resp |-> NilResp, complete |-> FALSE]
    ELSE LET r == ReadResponse(SubSeq(b, Len(PREFIX) + 1, Len(b))) IN
         [err |-> r.err, panicked |-> FALSE, resp |-> r.resp, complete |-> r.complete]

----------------------------------------------------------------------------
(* Byte store *)

\* DiskCache.cacheDir
cacheDir == <<"root">>

\* filepath.Join(d.cacheDir, cacheKey)
FullPath(cacheKey) == Join(<<cacheDir, cacheKey>>)

\* a path with no file; ins is the response a file was serialized from, kept
\* beside the bytes for the statements about replay (NilResp when the bytes
\* were not written by the proxy engine)
NoFile == [exists |-> FALSE, data |-> <<>>, mtime |-> 0, ins |-> NilResp]

\* variant: a TTL of zero is compared like any other
ExpiredAlsoAtZero(file, t, time) == time - file.mtime > t

\* variant: the age is compared with the TTL plus one tick
ExpiredLate(file, t, time) == t # 0 /\ time - file.mtime > t + 1

\* time.Since(info.ModTime()) > d.ttl, with 0 meaning infinity
Expired(file, t, time) == t # 0 /\ time - file.mtime > t

\* variant: the failure of os.Remove on an expired entry is returned
DiskGetRemoveFails(files, t, time, cacheKey, fault) ==
    LET fullPath == FullPath(cacheKey) IN
    IF cacheKey = <<>> THEN [err |-> TRUE, found |-> FALSE, data |-> <<>>, files |-> files]
    ELSE IF fault = "stat" THEN [err |-> TRUE, found |-> FALSE, data |-> <<>>, files |-> files]
    ELSE IF ~files[fullPath].exists
         THEN [err |-> FALSE, found |-> FALSE, data |-> <<>>, files |-> files]
    ELSE IF Expired(files[fullPath], t, time)
         THEN [err |-> fault = "remove", found |-> FALSE, data |-> <<>>,
               files |-> IF fault = "remove" THEN files
                         ELSE [files EXCEPT ![fullPath] = NoFile]]
    ELSE IF fault = "read" THEN [err |-> TRUE, found |-> FALSE, data |-> <<>>, files |-> files]
    ELSE [err |-> FALSE, found |-> TRUE, data |-> files[fullPath].data, files |-> files]

\* variant: the empty key is looked up like a key with no entry
DiskGetEmptyKeyMiss(files, t, time, cacheKey, fault) ==
    LET fullPath == FullPath(cacheKey) IN
    IF cacheKey = <<>> THEN [err |-> FALSE, found |-> FALSE, data |-> <<>>, files |-> files]
    ELSE IF fault = "stat" THEN [err |-> TRUE, found |-> FALSE, data |-> <<>>, files |-> files]
    ELSE IF ~files[fullPath].exists
         THEN [err |-> FALSE, found |-> FALSE, data |-> <<>>, files |-> files]
    ELSE IF Expired(files[fullPath], t, time)
         THEN [err |-> FALSE, found |-> FALSE, data |-> <<>>,
               files |-> IF fault = "remove" THEN files
                         ELSE [files EXCEPT ![fullPath] = NoFile]]
    ELSE IF fault = "read" THEN [err |-> TRUE, found |-> FALSE, data |-> <<>>, files |-> files]
    ELSE [err |-> FALSE, found |-> TRUE, data |-> files[fullPath].data, files |-> files]

\* variant: a get also removes every other entry older than the TTL
DiskGetSweeps(files, t, time, cacheKey, fault) ==
    LET fullPath == FullPath(cacheKey)
        swept == [f \in DOMAIN files |->
                     IF files[f].exists /\ Expired(files[f], t, time) THEN NoFile
                     ELSE files[f]]
    IN
    IF cacheKey = <<>> THEN [err |-> TRUE, found |-> FALSE, data |-> <<>>, files |-> files]
    ELSE IF fault = "stat" THEN [err |-> TRUE, found |-> FALSE, data |-> <<>>, files |-> files]
    ELSE IF ~files[fullPath].exists
         THEN [err |-> FALSE, found |-> FALSE, data |-> <<>>, files |-> swept]
    ELSE IF Expired(files[fullPath], t, time)
         THEN [err |-> FALSE, found |-> FALSE, data |-> <<>>, files |-> swept]
    ELSE IF fault = "read" THEN [err |-> TRUE, found |-> FALSE, data |-> <<>>, files |-> files]
    ELSE [err |-> FALSE, found |-> TRUE, data |-> files[fullPath].data, files |-> swept]

\* DiskCache.Get.  fault: "stat", "remove" or "read" makes that filesystem
\* call fail, "none" makes none fail.  found = FALSE is the nil slice.
DiskGet(files, t, time, cacheKey, fault) ==
    LET fullPath == FullPath(cacheKey) IN
    IF cacheKey = <<>> THEN [err |-> TRUE, found |-> FALSE, data |-> <<>>, files |-> files]
    ELSE IF fault = "stat" THEN [err |-> TRUE, found |-> FALSE, data |-> <<>>, files |-> files]
    ELSE IF ~files[fullPath].exists
         THEN [err |-> FALSE, found |-> FALSE, data |-> <<>>, files |-> files]
    ELSE IF Expired(files[fullPath], t, time)
         THEN [err |-> FALSE, found |-> FALSE, data |-> <<>>,
               files |-> IF fault = "remove" THEN files
                         ELSE [files EXCEPT ![fullPath] = NoFile]]
    ELSE IF fault = "read" THEN [err |-> TRUE, found |-> FALSE, data |-> <<>>, files |-> files]
    ELSE [err |-> FALSE, found |-> TRUE, data |-> files[fullPath].data, files |-> files]

\* variant: the file is opened for appending, not truncated
DiskSetNoTrunc(files, time, cacheKey, data, ins, fault, n) ==
    LET fullpath == FullPath(cacheKey) IN
    IF cacheKey = <<>> THEN [err |-> TRUE, files |-> files]
    ELSE IF fault = "mkdir" THEN [err |-> TRUE, files |-> files]
    ELSE IF fault = "write"
         THEN [err |-> TRUE,
               files |-> [files EXCEPT ![fullpath] =
                   [exists |-> TRUE, data |-> files[fullpath].data \o SubSeq(data, 1, n),
                    mtime |-> time, ins |-> NilResp]]]
    ELSE [err |-> FALSE,
          files |-> [files EXCEPT ![fullpath] =
              [exists |-> TRUE, data |-> files[fullpath].data \o data, mtime |-> time,
               ins |-> ins]]]

\* DiskCache.Set.  fault: "mkdir" fails before the file is touched; "write"
\* fails after os.WriteFile truncated the file and wrote n bytes of data.
DiskSet(files, time, cacheKey, data, ins, fault, n) ==
    LET fullpath == FullPath(cacheKey) IN
    IF cacheKey = <<>> THEN [err |-> TRUE, files |-> files]
    ELSE IF fault = "mkdir" THEN [err |-> TRUE, files |-> files]
    ELSE IF fault = "write"
         THEN [err |-> TRUE,
               files |-> [files EXCEPT ![fullpath] =
                   [exists |-> TRUE, data |-> SubSeq(data, 1, n), mtime |-> time,
                    ins |-> NilResp]]]
    ELSE [err |-> FALSE,
          files |-> [files EXCEPT ![fullpath] =
              [exists |-> TRUE, data |-> data, mtime |-> time, ins |-> ins]]]

\* variant: an entry that does not decode is removed by the lookup
GetKeyRemovesCorrupt(files, t, time, requestKey, fault) ==
    LET g == DiskGet(files, t, time, requestKey, fault) IN
    IF g.err THEN [err |-> TRUE, panicked |-> FALSE, resp |-> NilResp, complete |-> FALSE,
                   files |-> g.files]
    ELSE IF ~g.found
         THEN [err |-> FALSE, panicked |-> FALSE, resp |-> NilResp, complete |-> FALSE,
               files |-> g.files]
    ELSE LET d == Deserialize(g.data, TRUE) IN
         [err |-> d.err, panicked |-> d.panicked, resp |-> d.resp, complete |-> d.complete,
          files |-> IF d.err THEN [g.files EXCEPT ![FullPath(requestKey)] = NoFile]
                    ELSE g.files]

\* HTTPCache.GetKey: resp is NilResp on a miss and on an error.  The bytes
\* come from os.ReadFile, whose buffer has room for the prefix.
GetKey(files, t, time, requestKey, fault) ==
    LET g == DiskGet(files, t, time, requestKey, fault) IN
    IF g.err THEN [err |-> TRUE, panicked |-> FALSE, resp |-> NilResp, complete |-> FALSE,
                   files |-> g.files]
    ELSE IF ~g.found
         THEN [err |-> FALSE, panicked |-> FALSE, resp |-> NilResp, complete |-> FALSE,
               files |-> g.files]
    ELSE LET d == Deserialize(g.data, TRUE) IN
         [err |-> d.err, panicked |-> d.panicked, resp |-> d.resp, complete |-> d.complete,
          files |-> g.files]

\* HTTPCache.SetKey
SetKey(files, time, requestKey, resp, fault, n) ==
    DiskSet(files, time, requestKey, Serialize(resp), resp, fault, n)

----------------------------------------------------------------------------
(* The requests and upstream responses of the model *)

Req(method, scheme, host, path, query, bypass) ==
    [method |-> method, scheme |-> scheme, host |-> host, path |-> path, query |-> query,
     header |-> [NoReqHeader EXCEPT !["X-Cache-Bypass"] = bypass], body |-> <<>>]

rFoo == Req("GET", "http", <<"origin.test">>, <<"/", "foo">>, <<>>, <<>>)

rBar == Req("GET", "http", <<"origin.test">>, <<"/", "bar">>, <<>>, <<>>)

rSec == Req("GET", "https", <<"origin.test">>, <<"/", "foo">>, <<>>, <<>>)

WithBypass(r, v) == [r EXCEPT !.header["X-Cache-Bypass"] = v]

Requests == {rFoo, rSec, WithBypass(rFoo, <<"1">>), WithBypass(rBar, <<"", "1">>)}

Resp(status, xcache, cookies, body) ==
    [status |-> status,
     header |-> [NoRespHeader EXCEPT !["Content-Length"] = <<Digit(Len(body))>>,
                                     !["Set-Cookie"] = cookies,
                                     !["X-Cache"] = xcache],
     body |-> body]

sOK == Resp(200, <<>>, <<"a", "b">>, <<"he", "llo">>)

sNotFound == Resp(404, <<>>, <<>>, <<"no">>)

sCdnHit == Resp(200, <<"HIT">>, <<>>, <<"cdn">>)

sCdnMiss == Resp(201, <<"MISS">>, <<>>, <<>>)

UpstreamResponses == {sOK, sNotFound, sCdnHit, sCdnMiss}

Keys == {GenerateKey(r, FALSE).key : r \in Requests}

\* the origin form of a request: the URL is relative
Rel(r) == [r EXCEPT !.scheme = "", !.host = <<>>]

\* the files of the store: those of the keys, and those a URL without a host
\* would name
Files ==
    {FullPath(k) : k \in Keys}
        \cup {FullPath(GenerateKey(Rel(r), FALSE).key) : r \in {rFoo, rBar}}

Rule(base, methods, codes) == [BaseURI |-> base, Methods |-> methods, StatusCodes |-> codes]

ruleFoo2xx == Rule(<<"http", "://", "origin.test", "/", "foo">>, <<"get">>, <<<<"2", "x", "x">>>>)

ruleOrigin == Rule(<<"http", "://", "origin.test">>, <<"GET", "POST">>, <<>>)

ruleOther == Rule(<<"https", "://", "other.test">>, <<"GET">>, <<>>)

rule404 == Rule(<<"http", "://">>, <<"GET">>, <<<<"4", "0", "4">>, <<"5", "x", "x">>>>)

rule200 ==
    Rule(<<"http", "://", "origin.test">>, <<"Get">>, <<<<"2", "0", "x">>, <<"2", "0", "0">>>>)

Modes == {"whitelist", "blacklist"}

\* the configurations the engine is run under
Configs ==
    {[mode |-> "blacklist", rules |-> <<>>],
     [mode |-> "whitelist", rules |-> <<>>],
     [mode |-> "whitelist", rules |-> <<ruleOther, ruleFoo2xx>>],
     [mode |-> "blacklist", rules |-> <<rule404>>]}

\* the rulesets the evaluator is run on: every list of at most two rules
RuleSet == {ruleFoo2xx, ruleOrigin, ruleOther, rule404, rule200}

RuleLists == {<<>>} \cup {<<a>> : a \in RuleSet} \cup {<<a, b>> : a \in RuleSet, b \in RuleSet}

----------------------------------------------------------------------------
(* Proxy engine: the two filters of Server.setupProxyHandlers *)

SrcHTTPExplicit == "http-explicit"

\* ctxUserData
NoUserData == [key |-> <<>>, bypass |-> FALSE, source |-> SrcHTTPExplicit]

\* variant: a decoded entry is stamped but not returned as the response
OnRequestNoShortCircuit(req, files, t, time, closeFails, fault) ==
    IF HeaderGet(req.header, "X-Cache-Bypass") # ""
    THEN [req |-> [req EXCEPT !.header = HeaderDel(req.header, "X-Cache-Bypass")],
          resp |-> NilResp, hit |-> FALSE, panicked |-> FALSE,
          userData |-> [NoUserData EXCEPT !.bypass = TRUE], files |-> files]
    ELSE LET k == GenerateKey(req, closeFails)
             c == GetKey(files, t, time, k.key, fault)
         IN  [req |-> req, resp |-> NilResp, hit |-> ~c.err /\ ~IsNil(c.resp),
              panicked |-> c.panicked, userData |-> [NoUserData EXCEPT !.key = k.key],
              files |-> c.files]

\* variant: the bypass header is noticed but left on the request
OnRequestKeepsBypassHeader(req, files, t, time, closeFails, fault) ==
    IF HeaderGet(req.header, "X-Cache-Bypass") # ""
    THEN [req |-> req, resp |-> NilResp, hit |-> FALSE, panicked |-> FALSE,
          userData |-> [NoUserData EXCEPT !.bypass = TRUE], files |-> files]
    ELSE LET k == GenerateKey(req, closeFails)
             c == GetKey(files, t, time, k.key, fault)
             ud == [NoUserData EXCEPT !.key = k.key]
         IN  IF c.err \/ IsNil(c.resp)
             THEN [req |-> req, resp |-> NilResp, hit |-> FALSE, panicked |-> c.panicked,
                   userData |-> ud, files |-> c.files]
             ELSE [req |-> req,
                   resp |-> [c.resp EXCEPT !.header = HeaderSet(c.resp.header, "X-Cache", "HIT")],
                   hit |-> TRUE, panicked |-> FALSE, userData |-> ud, files |-> c.files]

\* the OnRequest filter.  It returns the request to forward, the response
\* that short-circuits the fetch (NilResp: go upstream), the user data of the
\* context and the files after the lookup.  hit: the lookup decoded an entry.
OnRequest(req, files, t, time, closeFails, fault) ==
    IF HeaderGet(req.header, "X-Cache-Bypass") # ""
    THEN [req |-> [req EXCEPT !.header = HeaderDel(req.header, "X-Cache-Bypass")],
          resp |-> NilResp, hit |-> FALSE, panicked |-> FALSE,
          userData |-> [NoUserData EXCEPT !.bypass = TRUE], files |-> files]
    ELSE LET k == GenerateKey(req, closeFails) IN
         IF k.err
         THEN [req |-> req, resp |-> NilResp, hit |-> FALSE, panicked |-> FALSE,
               userData |-> NoUserData, files |-> files]
         ELSE LET c == GetKey(files, t, time, k.key, fault)
                  ud == [NoUserData EXCEPT !.key = k.key]
              IN  IF c.panicked
                  THEN [req |-> req, resp |-> NilResp, hit |-> FALSE, panicked |-> TRUE,
                        userData |-> ud, files |-> c.files]
                  ELSE IF c.err \/ IsNil(c.resp)
                  THEN [req |-> req, resp |-> NilResp, hit |-> FALSE, panicked |-> FALSE,
                        userData |-> ud, files |-> c.files]
                  ELSE [req |-> req,
                        resp |-> [c.resp EXCEPT !.header = HeaderSet(c.resp.header, "X-Cache", "HIT")],
                        hit |-> TRUE, panicked |-> FALSE, userData |-> ud, files |-> c.files]

\* variant: BYPASS is stamped only when the response has no X-Cache yet
OnResponseKeepsUpstreamStamp(resp, ctxReq, userData, files, time, rs, md, fault, n) ==
    LET should == shouldBeCached(rs, md, ctxReq, resp)
        isCacheHit == HeaderGet(resp.header, "X-Cache") = "HIT"
        stamp == IF userData.bypass THEN "BYPASS" ELSE IF should THEN "MISS" ELSE "DISABLED"
        set == IF ~userData.bypass /\ ~isCacheHit /\ should /\ fault # "close"
               THEN SetKey(files, time, userData.key, resp, fault, n)
               ELSE [err |-> TRUE, files |-> files]
    IN  [resp |-> [resp EXCEPT !.header = IF HeaderGet(resp.header, "X-Cache") = ""
                                          THEN HeaderSet(resp.header, "X-Cache", stamp)
                                          ELSE resp.header],
         files |-> set.files, wrote |-> ~set.err]

\* variant: a response that carries X-Cache: HIT is inserted like any other
OnResponseReinsertsHits(resp, ctxReq, userData, files, time, rs, md, fault, n) ==
    IF userData.bypass
    THEN [resp |-> [resp EXCEPT !.header = HeaderSet(resp.header, "X-Cache", "BYPASS")],
          files |-> files, wrote |-> FALSE]
    ELSE LET should == shouldBeCached(rs, md, ctxReq, resp)
             set == IF should /\ fault # "close"
                    THEN SetKey(files, time, userData.key, resp, fault, n)
                    ELSE [err |-> TRUE, files |-> files]
             header2 == IF HeaderGet(resp.header, "X-Cache") = ""
                        THEN HeaderSet(resp.header, "X-Cache",
                                       IF should THEN "MISS" ELSE "DISABLED")
                        ELSE resp.header
         IN  [resp |-> [resp EXCEPT !.header = header2,
                                    !.body = IF should /\ fault = "close" THEN <<>> ELSE @],
              files |-> set.files, wrote |-> ~set.err]

\* the OnResponse filter, for a non-nil response.  fault: "close" makes
\* copyResponse fail, "mkdir" and "write" make the store's Set fail.
\* wrote: SetKey was called and returned no error.  copyResponse reads the
\* body to its end before it calls Close and rewraps resp.Body only after
\* Close succeeded: when Close fails the response keeps the drained body.
OnResponse(resp, ctxReq, userData, files, time, rs, md, fault, n) ==
    IF userData.bypass
    THEN [resp |-> [resp EXCEPT !.header = HeaderSet(resp.header, "X-Cache", "BYPASS")],
          files |-> files, wrote |-> FALSE]
    ELSE LET isCacheHit == HeaderGet(resp.header, "X-Cache") = "HIT"
             should == shouldBeCached(rs, md, ctxReq, resp)
             copied == ~isCacheHit /\ should
             set == IF copied /\ fault # "close"
                    THEN SetKey(files, time, userData.key, resp, fault, n)
                    ELSE [err |-> TRUE, files |-> files]
             header2 == IF HeaderGet(resp.header, "X-Cache") = ""
                        THEN HeaderSet(resp.header, "X-Cache",
                                       IF should THEN "MISS" ELSE "DISABLED")
                        ELSE resp.header
         IN  [resp |-> [resp EXCEPT !.header = header2,
                                    !.body = IF copied /\ fault = "close" THEN <<>> ELSE @],
              files |-> set.files, wrote |-> ~set.err]

NoReq == Req("", "", <<>>, <<>>, <<>>, <<>>)

\* req: the request as the client sent it, host: its Host (req.Host);
\* failed: GetKey returned an error to the OnRequest filter; tunnel: the
\* task serves an intercepted tunnel; inherit: the UserData of the tunnel's
\* CONNECT context, <<>> for nil
IdleSlot ==
    [pc |-> "idle", req |-> NoReq, host |-> <<>>, out |-> NoReq, userData |-> NoUserData,
     hit |-> FALSE, failed |-> FALSE, tunnel |-> FALSE, inherit |-> <<>>,
     expect |-> NilResp, fetched |-> FALSE, up |-> NilResp, resp |-> NilResp,
     wrote |-> FALSE, stored |-> FALSE]

Slots == 1..NumSlots

\* the file a request's key names
FileOf(req) == FullPath(GenerateKey(req, FALSE).key)

\* the response a replay of the live entry under the request's key must give:
\* the response post-flight serialized into it (NilResp when there is no
\* live entry written by post-flight)
Expect(req, files, t, time) ==
    LET f == files[FileOf(req)] IN
    IF f.exists /\ (t = 0 \/ time - f.mtime <= t) THEN f.ins ELSE NilResp

\* what the client gets and what the store holds once OnResponse has run;
\* wrote: post-flight inserted the response; stored: the entry under the
\* request's key holds the upstream response when post-flight ends
Completed(slot, o) ==
    LET f == FullPath(slot.userData.key) IN
    [slot EXCEPT !.pc = "done", !.resp = o.resp, !.wrote = o.wrote,
                 !.stored = /\ slot.userData.key # <<>>
                            /\ slot.fetched
                            /\ o.files[f].exists
                            /\ o.files[f].data = Serialize(slot.up)]

\* A task accepts a request and runs the OnRequest filter on it.  When the
\* filter returns a response the proxy skips the round trip and runs the
\* OnResponse filter on that response in the same task; otherwise the
\* request waits for the origin.
HandleRequest(s, r) ==
    /\ slots[s].pc = "idle"
    /\ \A u \in 1..(s - 1) : slots[u].pc # "idle"
    /\ nreq < MaxReqs
    /\ nreq' = nreq + 1
    /\ \E o \in {OnRequest(r, cache, ttl, now, FALSE, "none")} :
       LET slot == [IdleSlot EXCEPT !.pc = "forward", !.req = r, !.out = o.req,
                                    !.userData = o.userData, !.hit = o.hit,
                                    !.resp = o.resp,
                                    !.expect = IF o.userData.bypass THEN NilResp
                                               ELSE Expect(r, cache, ttl, now)]
       IN  IF IsNil(o.resp)
           THEN /\ cache' = o.files
                /\ slots' = [slots EXCEPT ![s] = slot]
                /\ UNCHANGED last
           ELSE \E p \in {OnResponse(o.resp, o.req, o.userData, o.files, now, rules,
                                       mode, "none", 0)} :
                /\ cache' = p.files
                /\ last' = Completed(slot, p)
                /\ UNCHANGED slots
    /\ UNCHANGED <<now, ttl, mode, rules, op, ev, kd, cd, cs, tun>>

\* No filter answered: the request goes upstream, the origin answers S and
\* the OnResponse filter runs on S, which then goes to the client.
RoundTrip(s, S) ==
    /\ slots[s].pc = "forward"
    /\ LET slot == [slots[s] EXCEPT !.fetched = TRUE, !.up = S, !.resp = S] IN
       \E p \in {OnResponse(S, slot.out, slot.userData, cache, now, rules, mode,
                             "none", 0)} :
           /\ cache' = p.files
           /\ last' = Completed(slot, p)
    /\ slots' = [slots EXCEPT ![s] = IdleSlot]
    /\ UNCHANGED <<now, ttl, mode, rules, nreq, op, ev, kd, cd, cs, tun>>

\* the clock advances
Tick ==
    /\ now < MaxTime
    /\ now' = now + 1
    /\ UNCHANGED <<ttl, cache, mode, rules, slots, last, nreq, op, ev, kd, cd, cs, tun>>

NoOp == [kind |-> "none", key |-> <<>>, data |-> <<>>, err |-> FALSE, found |-> FALSE,
         expired |-> FALSE, present |-> FALSE, existed |-> FALSE, fault |-> "none"]

\* no key derived yet
NoKd == [n |-> 0, requ |-> NoReq, key |-> <<>>, again |-> <<>>, prev |-> NoReq,
         prevKey |-> <<>>]

\* no codec call yet
NoCd == [kind |-> "none", resp |-> NilResp, data |-> <<>>, err |-> FALSE,
         panicked |-> FALSE, out |-> NilResp]

\* the host names certificates are fetched for
CertHosts == {"origin.test", "other.test"}

\* a nil *tls.Certificate
NoCert == [host |-> "", serial |-> 0]

\* a session that has not called Fetch
NoSession == [pc |-> "idle", host |-> "", cert |-> NoCert, ret |-> NoCert, err |-> FALSE]

\* simpleCertStore{certs: make(map[string]*tls.Certificate)}: no host has a
\* certificate, no session has called Fetch
NoCs == [certs |-> [h \in CertHosts |-> NoCert], sess |-> [s \in Slots |-> NoSession],
         minted |-> 0, raced |-> FALSE, crashed |-> FALSE]

\* a ClientHello: whether vhost.TLS can parse it, and its server name
Hello(parses, sni) == [parses |-> parses, sni |-> sni]

\* interception off, no listener, no connection handled yet
NoTun == [enabled |-> FALSE, ca |-> "none", handler |-> "none", listener |-> FALSE,
          conn |-> "none", hello |-> Hello(FALSE, <<>>), remote |-> "", handed |-> <<>>,
          action |-> "none"]

NoEv == [n |-> 0, requ |-> NoReq, resp |-> NilResp, result |-> FALSE, consulted |-> 0,
         panicked |-> FALSE]

Init ==
    /\ now = 0
    /\ ttl \in {0, TTLTicks}
    /\ cache = [f \in Files |-> NoFile]
    /\ \E c \in Configs : mode = c.mode /\ rules = c.rules
    /\ slots = [s \in Slots |-> IdleSlot]
    /\ last = IdleSlot
    /\ nreq = 0
    /\ op = NoOp
    /\ ev = NoEv
    /\ kd = NoKd
    /\ cd = NoCd
    /\ cs = NoCs
    /\ tun = NoTun

Next ==
    \/ \E s \in Slots, r \in Requests : HandleRequest(s, r)
    \/ \E s \in Slots, S \in UpstreamResponses : RoundTrip(s, S)
    \/ Tick

Spec == Init /\ [][Next]_vars

----------------------------------------------------------------------------
(* The byte store on its own: set, get and the clock *)

StoreKeys == Keys \cup {<<>>}

\* the cache.ttl strings of the configuration
TTLStrings == {"", "0s", "1h"}

\* time.ParseDuration on those strings, in clock ticks
ParseDuration(str) == IF str = "0s" THEN 0 ELSE TTLTicks

\* Config.GetCacheTTL
GetCacheTTL(str) == IF str = "" THEN 0 ELSE ParseDuration(str)

StoreData == {Serialize(sOK), Serialize(sNotFound), <<"x">>}

InitStore ==
    /\ now = 0
    /\ ttl \in {GetCacheTTL(str) : str \in TTLStrings}
    /\ cache = [f \in Files |-> NoFile]
    /\ mode = "blacklist"
    /\ rules = <<>>
    /\ slots = [s \in Slots |-> IdleSlot]
    /\ last = IdleSlot
    /\ nreq = 0
    /\ op = NoOp
    /\ ev = NoEv
    /\ kd = NoKd
    /\ cd = NoCd
    /\ cs = NoCs
    /\ tun = NoTun

\* a caller sets key k to data
StoreSet(k, data) ==
    /\ LET r == DiskSet(cache, now, k, data, NilResp, "none", 0) IN
       /\ cache' = r.files
       /\ op' = [NoOp EXCEPT !.kind = "set", !.key = k, !.data = data, !.err = r.err,
                             !.present = k # <<>> /\ r.files[FullPath(k)].exists]
    /\ UNCHANGED <<now, ttl, mode, rules, slots, last, nreq, ev, kd, cd, cs, tun>>

\* a caller gets key k; existed: the entry was there when the get began;
\* expired: it was there and older than ttl; present: the entry is there when
\* the get returns
StoreGet(k) ==
    /\ LET r == DiskGet(cache, ttl, now, k, "none") IN
       /\ cache' = r.files
       /\ op' = [NoOp EXCEPT !.kind = "get", !.key = k, !.data = r.data, !.err = r.err,
                             !.found = r.found,
                             !.existed = k # <<>> /\ cache[FullPath(k)].exists,
                             !.expired = /\ k # <<>>
                                         /\ cache[FullPath(k)].exists
                                         /\ now - cache[FullPath(k)].mtime > ttl,
                             !.present = k # <<>> /\ r.files[FullPath(k)].exists]
    /\ UNCHANGED <<now, ttl, mode, rules, slots, last, nreq, ev, kd, cd, cs, tun>>

NextStore ==
    \/ \E k \in StoreKeys, data \in StoreData : StoreSet(k, data)
    \/ \E k \in StoreKeys : StoreGet(k)
    \/ Tick

SpecStore == InitStore /\ [][NextStore]_vars

----------------------------------------------------------------------------
(* The byte store over a filesystem whose calls can fail *)

\* the filesystem calls of Get that can fail: os.Stat, os.Remove, os.ReadFile
GetFaults == {"none", "stat", "remove", "read"}

\* the filesystem calls of Set that can fail: os.MkdirAll, os.WriteFile
SetFaults == {"none", "mkdir", "write"}

\* the byte strings set
FaultyData == {Serialize(sOK), <<"x">>}

\* a caller sets key k to data while the call named by fault fails; a failing
\* os.WriteFile has written n bytes
FaultySet(k, data, fault, n) ==
    /\ \E r \in {DiskSet(cache, now, k, data, NilResp, fault, n)} :
       /\ cache' = r.files
       /\ op' = [NoOp EXCEPT !.kind = "set", !.key = k, !.data = data, !.err = r.err,
                             !.fault = fault,
                             !.existed = k # <<>> /\ cache[FullPath(k)].exists,
                             !.present = k # <<>> /\ r.files[FullPath(k)].exists]
    /\ UNCHANGED <<now, ttl, mode, rules, slots, last, nreq, ev, kd, cd, cs, tun>>

\* a caller gets key k while the call named by fault fails
FaultyGet(k, fault) ==
    /\ \E r \in {DiskGet(cache, ttl, now, k, fault)} :
       /\ cache' = r.files
       /\ op' = [NoOp EXCEPT !.kind = "get", !.key = k, !.data = r.data, !.err = r.err,
                             !.found = r.found, !.fault = fault,
                             !.existed = k # <<>> /\ cache[FullPath(k)].exists,
                             !.expired = /\ k # <<>>
                                         /\ cache[FullPath(k)].exists
                                         /\ now - cache[FullPath(k)].mtime > ttl,
                             !.present = k # <<>> /\ r.files[FullPath(k)].exists]
    /\ UNCHANGED <<now, ttl, mode, rules, slots, last, nreq, ev, kd, cd, cs, tun>>

NextFaulty ==
    \/ \E k \in StoreKeys, data \in FaultyData, fault \in SetFaults :
          \E n \in (IF fault = "write" THEN {0, Len(data) - 1} ELSE {0}) :
             FaultySet(k, data, fault, n)
    \/ \E k \in StoreKeys, fault \in GetFaults : FaultyGet(k, fault)
    \/ Tick

SpecFaulty == InitStore /\ [][NextFaulty]_vars

----------------------------------------------------------------------------
(* The rule evaluator on its own *)

rPost == Req("post", "http", <<"origin.test">>, <<"/", "foo">>, <<"q=1">>, <<>>)

EvalRequests == {rFoo, rBar, rSec, rPost}

sError == Resp(500, <<>>, <<>>, <<"err">>)

EvalResponses == UpstreamResponses \cup {sError}

InitRules ==
    /\ now = 0
    /\ ttl = 0
    /\ cache = [f \in Files |-> NoFile]
    /\ mode \in Modes
    /\ rules \in RuleLists
    /\ slots = [s \in Slots |-> IdleSlot]
    /\ last = IdleSlot
    /\ nreq = 0
    /\ op = NoOp
    /\ ev = NoEv
    /\ kd = NoKd
    /\ cd = NoCd
    /\ cs = NoCs
    /\ tun = NoTun

\* post-flight asks the evaluator about a request and its response
Evaluate(requ, resp) ==
    /\ ev.n < MaxEvals
    /\ ev' = [n |-> ev.n + 1, requ |-> requ, resp |-> resp,
              result |-> shouldBeCached(rules, mode, requ, resp),
              consulted |-> RulesLoop(rules, 1, requ, resp).consulted,
              panicked |-> RulesLoop(rules, 1, requ, resp).panicked]
    /\ UNCHANGED <<now, ttl, cache, mode, rules, slots, last, nreq, op, kd, cd, cs, tun>>

NextRules == \E requ \in EvalRequests, resp \in EvalResponses : Evaluate(requ, resp)

SpecRules == InitRules /\ [][NextRules]_vars

----------------------------------------------------------------------------
(* The rule evaluator as the pre-flight lookup calls it *)

\* Server.getCachedResponse: the lookup for requ failed and the evaluator is
\* asked about requ with a nil response, to choose the level of the log line
EvaluateNoResponse(requ) ==
    /\ ev.n < MaxEvals
    /\ ev' = [n |-> ev.n + 1, requ |-> requ, resp |-> NilResp,
              result |-> shouldBeCached(rules, mode, requ, NilResp),
              consulted |-> RulesLoop(rules, 1, requ, NilResp).consulted,
              panicked |-> RulesLoop(rules, 1, requ, NilResp).panicked]
    /\ UNCHANGED <<now, ttl, cache, mode, rules, slots, last, nreq, op, kd, cd, cs, tun>>

NextPreflight == \E requ \in EvalRequests : EvaluateNoResponse(requ)

SpecPreflight == InitRules /\ [][NextPreflight]_vars

----------------------------------------------------------------------------
(* The key deriver on its own *)

KReq(method, scheme, host, path, query, accept, bypass, body) ==
    [method |-> method, scheme |-> scheme, host |-> host, path |-> path, query |-> query,
     header |-> [NoReqHeader EXCEPT !["Accept"] = accept, !["X-Cache-Bypass"] = bypass],
     body |-> body]

SchemeHosts ==
    {<<"http", <<"origin.test">>>>, <<"http", <<"origin.test", ":80">>>>,
     <<"https", <<"origin.test">>>>, <<"https", <<"origin.test", ":443">>>>,
     <<"http", <<"Origin.Test">>>>}

\* the requests whose keys are derived
KeyRequests ==
    {KReq(m, sh[1], sh[2], <<"/", "foo">>, q, a, <<>>, b) :
        m \in {"GET", "get"}, sh \in SchemeHosts, q \in {<<>>, <<"q=1">>},
        a \in {<<>>, <<"text/html">>}, b \in {<<>>, <<"data">>}}
    \cup {KReq("GET", "http", <<"origin.test">>, pa, <<>>, <<>>, by, <<>>) :
             pa \in {<<>>, <<"/">>, <<"/", "foo", "/">>}, by \in {<<>>, <<"1">>}}
    \cup {KReq("GET", "http", <<"origin.test">>, <<"/", "foo">>, q, a, <<"1">>, <<>>) :
             q \in {<<>>, <<"q=1">>, <<"q=2">>},
             a \in {<<>>, <<"text/html">>, <<"text/html", "*/*">>}}

InitKey ==
    /\ now = 0
    /\ ttl = 0
    /\ cache = [f \in Files |-> NoFile]
    /\ mode = "blacklist"
    /\ rules = <<>>
    /\ slots = [s \in Slots |-> IdleSlot]
    /\ last = IdleSlot
    /\ nreq = 0
    /\ op = NoOp
    /\ ev = NoEv
    /\ kd = NoKd
    /\ cd = NoCd
    /\ cs = NoCs
    /\ tun = NoTun

\* the key of r is derived, and derived once more from the request as the
\* first call left it; the derivation before this one is kept beside it
Derive(r) ==
    /\ \E k \in {GenerateKey(r, FALSE)} :
          kd' = [n |-> IF kd.n = 0 THEN 1 ELSE 2, requ |-> r, key |-> k.key,
                 again |-> GenerateKey([r EXCEPT !.body = k.body], FALSE).key,
                 prev |-> kd.requ, prevKey |-> kd.key]
    /\ UNCHANGED <<now, ttl, cache, mode, rules, slots, last, nreq, op, ev, cd, cs, tun>>

NextKey == \E r \in KeyRequests : Derive(r)

SpecKey == InitKey /\ [][NextKey]_vars

----------------------------------------------------------------------------
(* The key deriver on URLs with dot segments, empty segments, no host *)

\* the URL paths as the request line carries them; the engine hands the
\* URL to the filters as it was parsed, dot segments included
DotPaths ==
    {<<"/", "foo">>,
     <<"/", "/", "foo">>,
     <<"/", "foo", "/", "/", "bar">>,
     <<"/", "foo", "/", "..", "/", "bar">>,
     <<"/", ".", "/", "foo">>,
     <<"/", "..">>,
     <<"/", "..", "/", "foo">>,
     <<"/", "..", "/", "..", "/", "etc">>}

\* the requests whose keys are derived: each path under a host and under
\* the empty host
PathRequests ==
    {KReq("GET", "http", h, pa, q, <<>>, <<>>, <<>>) :
        h \in {<<"origin.test">>, <<>>}, pa \in DotPaths \cup {<<>>, <<"/">>},
        q \in {<<>>, <<"q=1">>}}

NextPaths == \E r \in PathRequests : Derive(r)

SpecPaths == InitKey /\ [][NextPaths]_vars

----------------------------------------------------------------------------
(* The key deriver on one host name under both schemes and several ports *)

PortAtoms == {":80", ":443", ":8080"}

\* the requests whose keys are derived: the URL's Host is the name alone or
\* the name with a port, under http and under https
OriginRequests ==
    {KReq("GET", sc, <<"origin.test">> \o po, <<"/", "foo">>, q, <<>>, <<>>, <<>>) :
        sc \in {"http", "https"}, po \in {<<>>} \cup {<<x>> : x \in PortAtoms},
        q \in {<<>>, <<"q=1">>}}

NextOrigins == \E r \in OriginRequests : Derive(r)

SpecOrigins == InitKey /\ [][NextOrigins]_vars

----------------------------------------------------------------------------
(* The response codec on its own *)

CodecStatuses == {100, 200, 204, 304, 404, 599}

\* the responses given to Serialize
CodecResponses ==
    {Resp(st, x, c, b) :
        st \in CodecStatuses, x \in {<<>>, <<"HIT">>},
        c \in {<<>>, <<"a">>, <<"a", "b">>, <<"b", "a">>},
        b \in {<<>>, <<"he">>, <<"he", "llo">>}}

\* the byte strings given to Deserialize: every prefix of an encoded
\* response, and strings that are no part of one
CodecInputs ==
    {SubSeq(Serialize(sOK), 1, n) : n \in 0..Len(Serialize(sOK))}
    \cup {<<"x">>, <<"x", "y">>, <<"x", "y", "z">>, <<"---HTTP-", "x">>,
          <<"RESPONSE---\n", "---HTTP-">>,
          PREFIX \o <<"x">>, PREFIX \o <<"HTTP/1.1 ", "x", "\r\n">>,
          PREFIX \o <<"HTTP/1.1 ", "2", "0", "0", "\r\n", "x">>}

InitCodec == InitKey

\* Serialize, then Deserialize on the bytes it returned
EncodeDecode(resp) ==
    /\ \E data \in {Serialize(resp)} :
       \E d \in {Deserialize(data, TRUE)} :
          cd' = [kind |-> "roundtrip", resp |-> resp, data |-> data, err |-> d.err,
                 panicked |-> d.panicked, out |-> d.resp]
    /\ UNCHANGED <<now, ttl, cache, mode, rules, slots, last, nreq, op, ev, kd, cs, tun>>

\* Deserialize on a byte slice b; roomy: its capacity reaches len(PREFIX)
Decode(b, roomy) ==
    /\ Len(b) >= Len(PREFIX) => roomy
    /\ \E d \in {Deserialize(b, roomy)} :
          cd' = [kind |-> "decode", resp |-> NilResp, data |-> b, err |-> d.err,
                 panicked |-> d.panicked, out |-> d.resp]
    /\ UNCHANGED <<now, ttl, cache, mode, rules, slots, last, nreq, op, ev, kd, cs, tun>>

NextCodec ==
    \/ \E resp \in CodecResponses : EncodeDecode(resp)
    \/ \E b \in CodecInputs, roomy \in BOOLEAN : Decode(b, roomy)

SpecCodec == InitCodec /\ [][NextCodec]_vars

----------------------------------------------------------------------------
(* Lookups beside a set that has written part of its bytes *)

\* the key the sets and lookups are about
PartialKey == GenerateKey(rFoo, FALSE).key

\* DiskCache.Set of the encoded S has truncated the file and written its first
\* n bytes: os.WriteFile is still writing, or has failed there
WritePartial(S, n) ==
    /\ cache' = DiskSet(cache, now, PartialKey, Serialize(S), S, "write", n).files
    /\ op' = [NoOp EXCEPT !.kind = "set", !.key = PartialKey, !.data = Serialize(S),
                          !.err = TRUE, !.present = TRUE]
    /\ UNCHANGED <<now, ttl, mode, rules, slots, last, nreq, ev, kd, cd, cs, tun>>

\* DiskCache.Set of the encoded S has written all its bytes
WriteWhole(S) ==
    /\ cache' = SetKey(cache, now, PartialKey, S, "none", 0).files
    /\ op' = [NoOp EXCEPT !.kind = "set", !.key = PartialKey, !.data = Serialize(S),
                          !.present = TRUE]
    /\ UNCHANGED <<now, ttl, mode, rules, slots, last, nreq, ev, kd, cd, cs, tun>>

\* a request arrives and the OnRequest filter looks its key up; op keeps the
\* bytes the lookup found in the file
Lookup(r) ==
    /\ \E o \in {OnRequest(r, cache, ttl, now, FALSE, "none")} :
          /\ cache' = o.files
          /\ last' = [IdleSlot EXCEPT !.pc = "done", !.req = r, !.out = o.req,
                                      !.userData = o.userData, !.hit = o.hit,
                                      !.resp = o.resp]
          /\ op' = [NoOp EXCEPT !.kind = "lookup", !.key = o.userData.key,
                                !.data = cache[FileOf(r)].data,
                                !.existed = cache[FileOf(r)].exists,
                                !.found = o.hit]
    /\ UNCHANGED <<now, ttl, mode, rules, slots, nreq, ev, kd, cd, cs, tun>>

NextPartial ==
    \/ \E S \in UpstreamResponses : \E n \in 0..(Len(Serialize(S)) - 1) : WritePartial(S, n)
    \/ \E S \in UpstreamResponses : WriteWhole(S)
    \/ \E r \in {rFoo, rSec} : Lookup(r)

SpecPartial == InitKey /\ [][NextPartial]_vars

----------------------------------------------------------------------------
(* The proxy engine over entries that do not decode and reads that fail *)

\* the lengths at which a failed os.WriteFile leaves the encoded response:
\* nothing, inside the status line, inside the headers
CutLengths == {0, 3, 8}

\* the calls of the lookup that can fail
LookupFaults == {"none", "stat", "read"}

\* A task accepts request r and runs the OnRequest filter while the call
\* named by fault fails; on a hit the OnResponse filter runs in the same
\* task.  op keeps the bytes the lookup met in the file and whether GetKey
\* returned an error.
FaultyLookup(s, r, fault) ==
    /\ slots[s].pc = "idle"
    /\ \A u \in 1..(s - 1) : slots[u].pc # "idle"
    /\ nreq < MaxReqs
    /\ nreq' = nreq + 1
    /\ \E o \in {OnRequest(r, cache, ttl, now, FALSE, fault)} :
       \E failed \in {GetKey(cache, ttl, now, o.userData.key, fault).err} :
       LET slot == [IdleSlot EXCEPT !.pc = "forward", !.req = r, !.out = o.req,
                                    !.userData = o.userData, !.hit = o.hit,
                                    !.failed = failed, !.resp = o.resp]
       IN  /\ op' = [NoOp EXCEPT !.kind = "lookup", !.key = o.userData.key,
                                 !.data = cache[FileOf(r)].data,
                                 !.existed = cache[FileOf(r)].exists,
                                 !.expired = /\ cache[FileOf(r)].exists
                                             /\ Expired(cache[FileOf(r)], ttl, now),
                                 !.found = o.hit, !.err = failed, !.fault = fault,
                                 !.present = o.files[FileOf(r)].exists]
           /\ IF IsNil(o.resp)
              THEN /\ cache' = o.files
                   /\ slots' = [slots EXCEPT ![s] = slot]
                   /\ UNCHANGED last
              ELSE \E p \in {OnResponse(o.resp, o.req, o.userData, o.files, now, rules,
                                          mode, "none", 0)} :
                   /\ cache' = p.files
                   /\ last' = Completed(slot, p)
                   /\ UNCHANGED slots
    /\ UNCHANGED <<now, ttl, mode, rules, ev, kd, cd, cs, tun>>

NextCorrupt ==
    \/ \E S \in {sOK} : \E n \in CutLengths : WritePartial(S, n)
    \/ \E s \in Slots, r \in {rFoo}, fault \in LookupFaults : FaultyLookup(s, r, fault)
    \/ \E s \in Slots, S \in {sOK, sNotFound} : RoundTrip(s, S)
    \/ Tick

SpecCorrupt == InitStore /\ [][NextCorrupt]_vars

----------------------------------------------------------------------------
(* Requests for one key in flight at the same time *)

\* the requests of the race: both derive the key of rFoo
RaceRequests == {rFoo, rSec}

\* f.Write(data) on a descriptor opened at offset 0: the bytes go over the
\* beginning of the file and what lies behind them stays
WriteAt(old, data) == data \o SubSeq(old, Len(data) + 1, Len(old))

\* os.OpenFile(name, O_WRONLY|O_CREATE|O_TRUNC, perm) of os.WriteFile
OpenTrunc(files, time, fullpath) ==
    [files EXCEPT ![fullpath] = [exists |-> TRUE, data |-> <<>>, mtime |-> time,
                                 ins |-> NilResp]]

\* a task accepts request r and runs the OnRequest filter; a hit is answered
\* at once, a miss waits for the origin
RaceRequest(s, r) ==
    /\ slots[s].pc = "idle"
    /\ nreq < MaxReqs
    /\ nreq' = nreq + 1
    /\ \E o \in {OnRequest(r, cache, ttl, now, FALSE, "none")} :
       LET slot == [IdleSlot EXCEPT !.pc = "forward", !.req = r, !.out = o.req,
                                    !.userData = o.userData, !.hit = o.hit,
                                    !.resp = o.resp]
       IN  IF IsNil(o.resp)
           THEN /\ cache' = o.files
                /\ slots' = [slots EXCEPT ![s] = slot]
                /\ UNCHANGED last
           ELSE \E p \in {OnResponse(o.resp, o.req, o.userData, o.files, now, rules,
                                       mode, "none", 0)} :
                /\ cache' = p.files
                /\ slots' = [slots EXCEPT ![s] = Completed(slot, p)]
                /\ last' = Completed(slot, p)
    /\ UNCHANGED <<now, ttl, mode, rules, op, ev, kd, cd, cs, tun>>

\* the origin answers S and the OnResponse filter runs up to the OpenFile of
\* os.WriteFile, which truncates the entry; a response that is not to be
\* cached is stamped and delivered at once
RaceFetch(s, S) ==
    /\ slots[s].pc = "forward"
    /\ LET slot == [slots[s] EXCEPT !.fetched = TRUE, !.up = S, !.resp = S] IN
       IF /\ ~slot.userData.bypass
          /\ HeaderGet(S.header, "X-Cache") # "HIT"
          /\ shouldBeCached(rules, mode, slot.out, S)
          /\ slot.userData.key # <<>>
       THEN /\ cache' = OpenTrunc(cache, now, FullPath(slot.userData.key))
            /\ slots' = [slots EXCEPT ![s] = [slot EXCEPT !.pc = "writing"]]
            /\ UNCHANGED last
       ELSE \E p \in {OnResponse(S, slot.out, slot.userData, cache, now, rules, mode,
                                  "none", 0)} :
            /\ cache' = p.files
            /\ slots' = [slots EXCEPT ![s] = Completed(slot, p)]
            /\ last' = Completed(slot, p)
    /\ UNCHANGED <<now, ttl, mode, rules, nreq, op, ev, kd, cd, cs, tun>>

\* os.WriteFile writes the encoded response through its descriptor and
\* closes it; the filter stamps the response and the client gets it
RaceWrite(s) ==
    /\ slots[s].pc = "writing"
    /\ LET slot == slots[s]
           f == FullPath(slot.userData.key)
           data == Serialize(slot.up)
       IN  \E p \in {OnResponse(slot.up, slot.out, slot.userData, cache, now, rules, mode,
                                 "mkdir", 0)} :
           \E files \in {[cache EXCEPT ![f] = [exists |-> TRUE,
                                               data |-> WriteAt(cache[f].data, data),
                                               mtime |-> now, ins |-> NilResp]]} :
              /\ cache' = files
              /\ slots' = [slots EXCEPT ![s] =
                              Completed(slot, [resp |-> p.resp, files |-> files,
                                               wrote |-> TRUE])]
              /\ last' = Completed(slot, [resp |-> p.resp, files |-> files, wrote |-> TRUE])
              /\ op' = [NoOp EXCEPT !.kind = "set", !.key = slot.userData.key,
                                    !.data = data, !.present = TRUE]
    /\ UNCHANGED <<now, ttl, mode, rules, nreq, ev, kd, cd, cs, tun>>

NextRace ==
    \/ \E s \in Slots, r \in RaceRequests : RaceRequest(s, r)
    \/ \E s \in Slots, S \in UpstreamResponses : RaceFetch(s, S)
    \/ \E s \in Slots : RaceWrite(s)

SpecRace == InitKey /\ [][NextRace]_vars

----------------------------------------------------------------------------
(* The cert store under sessions that call Fetch at the same time *)

InitCerts == InitKey

\* another session is inside its assignment to the map
MapBusy(s) == \E u \in Slots \ {s} : cs.sess[u].pc = "writing"

\* the certificates a map read by session s can give for host h: the entry of
\* the map, and beside an assignment to the same key in progress in another
\* session also the certificate that is being stored
ReadValues(s, h) ==
    {cs.certs[h]}
        \cup {cs.sess[u].cert : u \in {v \in Slots \ {s} : /\ cs.sess[v].pc = "writing"
                                                            /\ cs.sess[v].host = h}}

\* variant: Fetch does not look the host up and mints every time
FetchReadAlwaysMints(s, h, crash) ==
    /\ ~cs.crashed
    /\ cs.sess[s].pc \in {"idle", "done"}
    /\ crash => MapBusy(s)
    /\ IF crash
       THEN cs' = [cs EXCEPT !.raced = TRUE, !.crashed = TRUE]
       ELSE cs' = [cs EXCEPT !.raced = @ \/ MapBusy(s),
                             !.sess[s] = [pc |-> "gen", host |-> h, cert |-> NoCert,
                                          ret |-> NoCert, err |-> FALSE]]
    /\ UNCHANGED <<now, ttl, cache, mode, rules, slots, last, nreq, op, ev, kd, cd, tun>>

\* Fetch, line 16: cert, ok := s.certs[hostname], and the return when ok.
\* The map has no lock: a read beside an assignment in another session is a
\* data race, which the runtime ends with a fatal error or lets through.
FetchRead(s, h, crash) ==
    /\ ~cs.crashed
    /\ cs.sess[s].pc \in {"idle", "done"}
    /\ crash => MapBusy(s)
    /\ IF crash
       THEN cs' = [cs EXCEPT !.raced = TRUE, !.crashed = TRUE]
       ELSE \E cert \in ReadValues(s, h) :
               cs' = [cs EXCEPT !.raced = @ \/ MapBusy(s),
                                !.sess[s] = IF cert # NoCert
                                            THEN [pc |-> "done", host |-> h, cert |-> NoCert,
                                                  ret |-> cert, err |-> FALSE]
                                            ELSE [pc |-> "gen", host |-> h, cert |-> NoCert,
                                                  ret |-> NoCert, err |-> FALSE]]
    /\ UNCHANGED <<now, ttl, cache, mode, rules, slots, last, nreq, op, ev, kd, cd, tun>>

\* Fetch, lines 21-25: gen() mints a certificate for the host, or fails and
\* Fetch returns the error
FetchGen(s, fails) ==
    /\ ~cs.crashed
    /\ cs.sess[s].pc = "gen"
    /\ IF fails
       THEN cs' = [cs EXCEPT !.sess[s].pc = "done", !.sess[s].err = TRUE]
       ELSE /\ cs.minted < MaxMints
            /\ cs' = [cs EXCEPT !.minted = @ + 1,
                                !.sess[s].pc = "minted",
                                !.sess[s].cert = [host |-> cs.sess[s].host,
                                                  serial |-> cs.minted + 1]]
    /\ UNCHANGED <<now, ttl, cache, mode, rules, slots, last, nreq, op, ev, kd, cd, tun>>

\* Fetch, line 27: the assignment s.certs[hostname] = cert begins; beside an
\* assignment in another session it is a data race
FetchWriteBegin(s, crash) ==
    /\ ~cs.crashed
    /\ cs.sess[s].pc = "minted"
    /\ crash => MapBusy(s)
    /\ cs' = IF crash
             THEN [cs EXCEPT !.raced = TRUE, !.crashed = TRUE]
             ELSE [cs EXCEPT !.raced = @ \/ MapBusy(s), !.sess[s].pc = "writing"]
    /\ UNCHANGED <<now, ttl, cache, mode, rules, slots, last, nreq, op, ev, kd, cd, tun>>

\* Fetch, lines 27-28: the assignment ends and Fetch returns the certificate
FetchWriteEnd(s) ==
    /\ ~cs.crashed
    /\ cs.sess[s].pc = "writing"
    /\ cs' = [cs EXCEPT !.certs[cs.sess[s].host] = cs.sess[s].cert,
                        !.sess[s].pc = "done",
                        !.sess[s].ret = cs.sess[s].cert]
    /\ UNCHANGED <<now, ttl, cache, mode, rules, slots, last, nreq, op, ev, kd, cd, tun>>

NextCerts ==
    \/ \E s \in Slots, h \in CertHosts, crash \in BOOLEAN : FetchRead(s, h, crash)
    \/ \E s \in Slots, fails \in BOOLEAN : FetchGen(s, fails)
    \/ \E s \in Slots, crash \in BOOLEAN : FetchWriteBegin(s, crash)
    \/ \E s \in Slots : FetchWriteEnd(s)

SpecCerts == InitCerts /\ [][NextCerts]_vars

----------------------------------------------------------------------------
(* The cert store under Fetch calls that follow one another *)

\* a session calls Fetch while no other session is inside Fetch
SeqFetch(s, h) ==
    /\ \A u \in Slots \ {s} : cs.sess[u].pc \in {"idle", "done"}
    /\ FetchRead(s, h, FALSE)

NextCertsSeq ==
    \/ \E s \in Slots, h \in CertHosts : SeqFetch(s, h)
    \/ \E s \in Slots, fails \in BOOLEAN : FetchGen(s, fails)
    \/ \E s \in Slots : FetchWriteBegin(s, FALSE)
    \/ \E s \in Slots : FetchWriteEnd(s)

SpecCertsSeq == InitCerts /\ [][NextCertsSeq]_vars

----------------------------------------------------------------------------
(* The proxy endpoint: explicit requests and transparent HTTP *)

SrcHTTPTransparent == "http-transparent"

\* a request as it arrives on the proxy endpoint: its method, URL, headers
\* and body, and its Host (req.Host)
Wire(r, host) == [req |-> r, host |-> host]

WireRequests ==
    {Wire(rFoo, rFoo.host),
     Wire(Rel(rFoo), <<"origin.test">>),
     Wire(Rel(rFoo), <<>>),
     Wire(Rel(rBar), <<>>),
     Wire(Rel(WithBypass(rBar, <<"1">>)), <<"origin.test">>)}

\* url.URL.IsAbs
IsAbs(r) == r.scheme # ""

\* http.Error(w, "Cannot handle requests without Host header, e.g., HTTP 1.0",
\* http.StatusBadRequest)
BadRequest == Resp(400, <<>>, <<>>, <<"Cannot handle requests without Host header">>)

\* variant: the Host is not tested
NonproxyHandlerNoHostTest(w) ==
    [rejected |-> FALSE,
     req |-> [w.req EXCEPT !.scheme = "http", !.host = w.host],
     source |-> SrcHTTPTransparent]

\* proxy.NonproxyHandler: rejected, or the request to serve and its source
NonproxyHandler(w) ==
    IF w.host = <<>>
    THEN [rejected |-> TRUE, req |-> w.req, source |-> ""]
    ELSE [rejected |-> FALSE,
          req |-> [w.req EXCEPT !.scheme = "http", !.host = w.host],
          source |-> SrcHTTPTransparent]

\* the engine's dispatch of a request that is not a CONNECT: a relative URL
\* goes to NonproxyHandler, which hands what it accepts back to the engine
ServeHTTP(w) ==
    IF IsAbs(w.req)
    THEN [rejected |-> FALSE, req |-> w.req, source |-> SrcHTTPExplicit]
    ELSE NonproxyHandler(w)

\* A task accepts a request from the endpoint.  A rejected request is
\* answered 400 at once; any other runs the OnRequest filter with the user
\* data of its source, and on a hit the OnResponse filter in the same task.
Serve(s, w) ==
    /\ slots[s].pc = "idle"
    /\ \A u \in 1..(s - 1) : slots[u].pc # "idle"
    /\ nreq < MaxReqs
    /\ nreq' = nreq + 1
    /\ \E d \in {ServeHTTP(w)} :
       IF d.rejected
       THEN /\ last' = [IdleSlot EXCEPT !.pc = "done", !.req = w.req, !.host = w.host,
                                        !.resp = BadRequest]
            /\ UNCHANGED <<cache, slots>>
       ELSE \E o \in {OnRequest(d.req, cache, ttl, now, FALSE, "none")} :
            LET userData == [o.userData EXCEPT !.source = d.source]
                slot == [IdleSlot EXCEPT !.pc = "forward", !.req = w.req, !.host = w.host,
                                         !.out = o.req, !.userData = userData,
                                         !.hit = o.hit, !.resp = o.resp]
            IN  IF IsNil(o.resp)
                THEN /\ cache' = o.files
                     /\ slots' = [slots EXCEPT ![s] = slot]
                     /\ UNCHANGED last
                ELSE \E p \in {OnResponse(o.resp, o.req, userData, o.files, now, rules,
                                            mode, "none", 0)} :
                     /\ cache' = p.files
                     /\ last' = Completed(slot, p)
                     /\ UNCHANGED slots
    /\ UNCHANGED <<now, ttl, mode, rules, op, ev, kd, cd, cs, tun>>

NextEndpoint ==
    \/ \E s \in Slots, w \in WireRequests : Serve(s, w)
    \/ \E s \in Slots, S \in UpstreamResponses : RoundTrip(s, S)
    \/ Tick

SpecEndpoint == InitStore /\ [][NextEndpoint]_vars

----------------------------------------------------------------------------
(* Tunnels: CONNECT on the proxy endpoint and the transparent-TLS listener *)

\* the CA of the configuration: no files named, files that load, files that
\* tls.LoadX509KeyPair cannot load
CAStates == {"none", "ok", "bad"}

\* loadCertificate: "nil" (use the default certificate), "cert", or "err"
loadCertificate(ca) ==
    IF ca = "none" THEN "nil" ELSE IF ca = "bad" THEN "err" ELSE "cert"

\* Server.setupHTTPSProxyHandler: the CONNECT handler it registers, "none"
\* when it returns without registering one
setupHTTPSProxyHandler(ca) ==
    IF loadCertificate(ca) = "err" THEN "none"
    ELSE IF loadCertificate(ca) = "nil" THEN "AlwaysMitm"
    ELSE "customAlwaysMitm"

\* the server after New and Start: setupProxyHandlers registers a CONNECT
\* handler only when interception is enabled, and Start opens the
\* transparent-TLS listener only when it is enabled and has an address
Setup(enabled, ca, hasAddress) ==
    [NoTun EXCEPT !.enabled = enabled, !.ca = ca,
                  !.handler = IF enabled THEN setupHTTPSProxyHandler(ca) ELSE "none",
                  !.listener = enabled /\ hasAddress]

InitTunnel ==
    /\ now = 0
    /\ ttl = 0
    /\ cache = [f \in Files |-> NoFile]
    /\ mode = "blacklist"
    /\ rules = <<>>
    /\ slots = [s \in Slots |-> IdleSlot]
    /\ last = IdleSlot
    /\ nreq = 0
    /\ op = NoOp
    /\ ev = NoEv
    /\ kd = NoKd
    /\ cd = NoCd
    /\ cs = NoCs
    /\ tun \in {Setup(enabled, ca, hasAddress) :
                   enabled \in BOOLEAN, ca \in CAStates, hasAddress \in BOOLEAN}

\* net.JoinHostPort with the port written as ":443"
JoinHostPort(host, port) ==
    IF \E i \in 1..Len(host) : host[i] \in {":", "%"}
    THEN <<"[">> \o host \o <<"]", port>>
    ELSE host \o <<port>>

\* the engine on a CONNECT: the registered handler decides, and with no
\* handler the tunnel is accepted and spliced
HandleConnect(handler) == IF handler = "none" THEN "blind" ELSE "mitm"

TunnelHosts == {<<"origin.test">>, <<"other.test">>}

RemoteAddrs == {"10.0.0.1:5000", "10.0.0.2:6000"}

\* the ClientHellos the listener gets: unparseable, without SNI, with SNI
Hellos == {Hello(FALSE, <<>>), Hello(TRUE, <<>>)} \cup {Hello(TRUE, h) : h \in TunnelHosts}

\* a client sends CONNECT host:443 to the proxy endpoint
Connect(host, remote) ==
    /\ tun' = [tun EXCEPT !.conn = "connect", !.hello = Hello(FALSE, <<>>),
                          !.remote = remote, !.handed = <<>>,
                          !.action = HandleConnect(tun.handler)]
    /\ UNCHANGED <<now, ttl, cache, mode, rules, slots, last, nreq, op, ev, kd, cd, cs>>

\* variant: a connection without SNI is handed to the engine all the same
TransparentConnAlways(hello, remote) ==
    IF ~hello.parses THEN <<>>
    ELSE <<[method |-> "CONNECT", authority |-> JoinHostPort(hello.sni, ":443"),
            host |-> hello.sni, remote |-> remote]>>

\* the goroutine of StartTransparentHTTPS for one accepted connection: the
\* requests it hands to the engine
TransparentConn(hello, remote) ==
    IF ~hello.parses THEN <<>>
    ELSE IF hello.sni = <<>> THEN <<>>
    ELSE <<[method |-> "CONNECT", authority |-> JoinHostPort(hello.sni, ":443"),
            host |-> hello.sni, remote |-> remote]>>

\* a client connects to the transparent-TLS listener and sends hello
AcceptTLS(hello, remote) ==
    /\ tun.listener
    /\ \E handed \in {TransparentConn(hello, remote)} :
          tun' = [tun EXCEPT !.conn = "tls", !.hello = hello, !.remote = remote,
                             !.handed = handed,
                             !.action = IF handed = <<>> THEN "none"
                                        ELSE HandleConnect(tun.handler)]
    /\ UNCHANGED <<now, ttl, cache, mode, rules, slots, last, nreq, op, ev, kd, cd, cs>>

\* a request travels through the tunnel established last and the origin
\* answers S.  In an intercepted tunnel the decrypted request runs through
\* the two filters; a blind tunnel splices the bytes both ways.
TunnelRequest(r, S) ==
    /\ tun.action \in {"mitm", "blind"}
    /\ nreq < MaxReqs
    /\ nreq' = nreq + 1
    /\ IF tun.action = "blind"
       THEN /\ last' = [IdleSlot EXCEPT !.pc = "done", !.req = r, !.host = r.host, !.out = r,
                                        !.fetched = TRUE, !.up = S, !.resp = S]
            /\ UNCHANGED cache
       ELSE \E o \in {OnRequest(r, cache, ttl, now, FALSE, "none")} :
            LET slot == [IdleSlot EXCEPT !.pc = "forward", !.req = r, !.host = r.host,
                                         !.out = o.req, !.userData = o.userData,
                                         !.hit = o.hit, !.resp = o.resp]
                sent == IF IsNil(o.resp)
                        THEN [slot EXCEPT !.fetched = TRUE, !.up = S, !.resp = S]
                        ELSE slot
            IN  \E p \in {OnResponse(sent.resp, o.req, o.userData, o.files, now, rules,
                                      mode, "none", 0)} :
                /\ cache' = p.files
                /\ last' = Completed(sent, p)
    /\ UNCHANGED <<now, ttl, mode, rules, slots, op, ev, kd, cd, cs, tun>>

NextTunnel ==
    \/ \E host \in TunnelHosts, remote \in RemoteAddrs : Connect(host, remote)
    \/ \E hello \in Hellos, remote \in RemoteAddrs : AcceptTLS(hello, remote)
    \/ \E r \in {rSec}, S \in UpstreamResponses : TunnelRequest(r, S)

SpecTunnel == InitTunnel /\ [][NextTunnel]_vars

----------------------------------------------------------------------------
(* The proxy engine beside an origin that can fail to answer *)

\* the OnResponse filter on a nil response: it returns it as it is
OnResponseNil(files) == [resp |-> NilResp, files |-> files, wrote |-> FALSE]

\* what the engine (goproxy v1.7.2) sends the client when the filters leave
\* no response: http.Error with StatusInternalServerError
EngineError == Resp(500, <<>>, <<>>, <<"error read response">>)

\* The round trip of a forwarded request fails (connect error, timeout):
\* the OnResponse filter gets a nil response and the engine answers for it.
RoundTripFails(s) ==
    /\ slots[s].pc = "forward"
    /\ LET slot == [slots[s] EXCEPT !.fetched = TRUE, !.up = NilResp] IN
       \E p \in {OnResponseNil(cache)} :
           /\ cache' = p.files
           /\ last' = [Completed(slot, p) EXCEPT !.resp = EngineError]
    /\ slots' = [slots EXCEPT ![s] = IdleSlot]
    /\ UNCHANGED <<now, ttl, mode, rules, nreq, op, ev, kd, cd, cs, tun>>

NextUpstream ==
    \/ \E s \in Slots, r \in Requests : HandleRequest(s, r)
    \/ \E s \in Slots, S \in UpstreamResponses : RoundTrip(s, S)
    \/ \E s \in Slots : RoundTripFails(s)
    \/ Tick

SpecUpstream == InitStore /\ [][NextUpstream]_vars

\* The same engine with the progress its code gives it: the clock runs.  The
\* transport of New has no timeout (no Client.Timeout, no
\* ResponseHeaderTimeout, no deadline on the request), so no step of the
\* engine ends a round trip; only the origin does, by answering or failing,
\* and nothing makes the origin do either.
SpecSilentOrigin == InitStore /\ [][NextUpstream]_vars /\ WF_vars(Tick)

----------------------------------------------------------------------------
(* The proxy engine when the caching step of post-flight fails *)

\* what can fail in the caching step: resp.Body.Close in copyResponse,
\* os.MkdirAll and os.WriteFile in the store's Set
CachingFaults == {"none", "close", "mkdir", "write"}

\* The origin answers S and the OnResponse filter runs on it while the call
\* named by fault fails; a failing os.WriteFile has written n bytes.
FaultyRoundTrip(s, S, fault, n) ==
    /\ slots[s].pc = "forward"
    /\ LET slot == [slots[s] EXCEPT !.fetched = TRUE, !.up = S, !.resp = S] IN
       \E p \in {OnResponse(S, slot.out, slot.userData, cache, now, rules, mode,
                             fault, n)} :
           /\ cache' = p.files
           /\ last' = Completed(slot, p)
           /\ op' = [NoOp EXCEPT !.kind = "postflight", !.key = slot.userData.key,
                                 !.fault = fault, !.err = ~p.wrote]
    /\ slots' = [slots EXCEPT ![s] = IdleSlot]
    /\ UNCHANGED <<now, ttl, mode, rules, nreq, ev, kd, cd, cs, tun>>

NextCacheFaults ==
    \/ \E s \in Slots, r \in Requests : HandleRequest(s, r)
    \/ \E s \in Slots, S \in {sOK, sNotFound}, fault \in CachingFaults :
          FaultyRoundTrip(s, S, fault, 3)
    \/ Tick

SpecCacheFaults == InitStore /\ [][NextCacheFaults]_vars

----------------------------------------------------------------------------
(* The proxy engine over entries of two keys *)

\* requests of two keys, and one that bypasses the cache
EvictRequests == {rFoo, rBar, WithBypass(rFoo, <<"1">>)}

NextEvict ==
    \/ \E s \in Slots, r \in EvictRequests : HandleRequest(s, r)
    \/ \E s \in Slots, S \in {sOK, sNotFound} : RoundTrip(s, S)
    \/ Tick

SpecEvict == InitStore /\ [][NextEvict]_vars

----------------------------------------------------------------------------
(* The proxy engine restarted under another configuration *)

\* The proxy is stopped while no request is in flight and started again
\* with configuration c.  New builds the server from the configuration and
\* DiskCache.Init only makes sure the cache directory exists: the entries
\* written before the restart are still there.
Restart(c) ==
    /\ \A s \in Slots : slots[s].pc = "idle"
    /\ c # [mode |-> mode, rules |-> rules]
    /\ mode' = c.mode
    /\ rules' = c.rules
    /\ last' = IdleSlot
    /\ UNCHANGED <<now, ttl, cache, slots, nreq, op, ev, kd, cd, cs, tun>>

NextReconfig ==
    \/ \E s \in Slots, r \in {rFoo, WithBypass(rFoo, <<"1">>)} : HandleRequest(s, r)
    \/ \E s \in Slots, S \in {sOK, sNotFound} : RoundTrip(s, S)
    \/ \E c \in Configs : Restart(c)
    \/ Tick

SpecReconfig == Init /\ [][NextReconfig]_vars

----------------------------------------------------------------------------
(* The per-request context, on plain connections and inside tunnels *)

\* variant: the CONNECT handler puts a ctxUserData into the CONNECT context
ConnectUserDataShared == <<[NoUserData EXCEPT !.source = "https-explicit"]>>

\* ctx.UserData after the CONNECT handlers of setupHTTPSProxyHandler: they
\* return the action and the host and leave the context alone, nil
ConnectUserData == <<>>

\* lines 127-141 of the OnRequest filter: the ctxUserData the filter works
\* on is the one ctx.UserData points to when there is one, else a new one;
\* ud is what the filter has made of a new one
WithContext(inherit, ud) ==
    IF inherit = <<>> THEN ud
    ELSE [inherit[1] EXCEPT !.bypass = @ \/ ud.bypass,
                            !.key = IF ud.key # <<>> THEN ud.key ELSE @]

\* the request r as it travels inside a tunnel
Secure(r) == [r EXCEPT !.scheme = "https"]

\* a client's CONNECT is accepted for interception: the engine keeps the
\* CONNECT context for the requests of the tunnel
TunnelOpen(s) ==
    /\ slots[s].pc = "idle"
    /\ ~slots[s].tunnel
    /\ slots' = [slots EXCEPT ![s] = [IdleSlot EXCEPT !.tunnel = TRUE,
                                                      !.inherit = ConnectUserData]]
    /\ UNCHANGED <<now, ttl, cache, mode, rules, last, nreq, op, ev, kd, cd, cs, tun>>

\* the client closes the tunnel between two requests
TunnelClose(s) ==
    /\ slots[s].pc = "idle"
    /\ slots[s].tunnel
    /\ slots' = [slots EXCEPT ![s] = IdleSlot]
    /\ UNCHANGED <<now, ttl, cache, mode, rules, last, nreq, op, ev, kd, cd, cs, tun>>

\* A task reads request r, from a plain connection or from its tunnel.  The
\* engine makes a context for it whose UserData is that of the CONNECT
\* context, and runs the OnRequest filter; on a hit the OnResponse filter
\* runs in the same task.
CtxRequest(s, r) ==
    /\ slots[s].pc = "idle"
    /\ nreq < MaxReqs
    /\ nreq' = nreq + 1
    /\ \E q \in {IF slots[s].tunnel THEN Secure(r) ELSE r} :
       \E o \in {OnRequest(q, cache, ttl, now, FALSE, "none")} :
       \E userData \in {WithContext(slots[s].inherit, o.userData)} :
       LET slot == [slots[s] EXCEPT !.pc = "forward", !.req = q, !.out = o.req,
                                    !.userData = userData, !.hit = o.hit,
                                    !.resp = o.resp,
                                    !.inherit = IF @ = <<>> THEN @ ELSE <<userData>>]
       IN  IF IsNil(o.resp)
           THEN /\ cache' = o.files
                /\ slots' = [slots EXCEPT ![s] = slot]
                /\ UNCHANGED last
           ELSE \E p \in {OnResponse(o.resp, o.req, userData, o.files, now, rules,
                                       mode, "none", 0)} :
                /\ cache' = p.files
                /\ last' = Completed(slot, p)
                /\ slots' = [slots EXCEPT ![s] = [IdleSlot EXCEPT !.tunnel = slot.tunnel,
                                                                  !.inherit = slot.inherit]]
    /\ UNCHANGED <<now, ttl, mode, rules, op, ev, kd, cd, cs, tun>>

\* The origin answers S; the OnResponse filter reads ctx.UserData and runs
\* on S, and the task goes back to reading its connection.
CtxRoundTrip(s, S) ==
    /\ slots[s].pc = "forward"
    /\ \E userData \in {IF slots[s].inherit = <<>> THEN slots[s].userData
                         ELSE slots[s].inherit[1]} :
       LET slot == [slots[s] EXCEPT !.fetched = TRUE, !.up = S, !.resp = S,
                                    !.userData = userData]
       IN  \E p \in {OnResponse(S, slot.out, userData, cache, now, rules, mode,
                                 "none", 0)} :
           /\ cache' = p.files
           /\ last' = Completed(slot, p)
           /\ slots' = [slots EXCEPT ![s] = [IdleSlot EXCEPT !.tunnel = slot.tunnel,
                                                             !.inherit = slot.inherit]]
    /\ UNCHANGED <<now, ttl, mode, rules, nreq, op, ev, kd, cd, cs, tun>>

NextContext ==
    \/ \E s \in Slots : TunnelOpen(s)
    \/ \E s \in Slots : TunnelClose(s)
    \/ \E s \in Slots, r \in EvictRequests : CtxRequest(s, r)
    \/ \E s \in Slots, S \in {sOK, sNotFound} : CtxRoundTrip(s, S)

SpecContext == InitKey /\ [][NextContext]_vars

----------------------------------------------------------------------------
(* Byte store: expiry *)

ZeroTTLNeverExpires ==
    (ttl = 0 /\ op.kind = "get" /\ op.existed) =>
        /\ op.found
        /\ ~op.err
        /\ op.present
        /\ op.data = cache[FullPath(op.key)].data
        /\ cache[FullPath(op.key)].mtime <= now

\* with TTL = 0 a get returned an entry written MaxTime ticks before
OldEntryReturned ==
    /\ ttl = 0
    /\ op.kind = "get"
    /\ op.found
    /\ now - cache[FullPath(op.key)].mtime = MaxTime

----------------------------------------------------------------------------
(* Byte store: round trip, errors, the empty key *)

\* the entry of key k is there and not older than the TTL
Live(k) ==
    /\ cache[FullPath(k)].exists
    /\ (ttl = 0 \/ now - cache[FullPath(k)].mtime <= ttl)

\* C23: a set of a non-empty key succeeds and leaves exactly its bytes under
\* the key, touching no other entry; a get within TTL returns the bytes of
\* the entry and leaves the store as it is, so that the bytes of a set are
\* returned until the key is set again or the entry expires.
SetThenGetRoundTrips ==
    [][now' = now =>
          /\ (op'.kind = "set" /\ op'.key # <<>>) =>
                /\ ~op'.err
                /\ cache'[FullPath(op'.key)].exists
                /\ cache'[FullPath(op'.key)].data = op'.data
                /\ cache'[FullPath(op'.key)].mtime = now
                /\ \A g \in Files \ {FullPath(op'.key)} : cache'[g] = cache[g]
          /\ (op'.kind = "get" /\ op'.key # <<>> /\ Live(op'.key)) =>
                /\ op'.found
                /\ ~op'.err
                /\ op'.data = cache[FullPath(op'.key)].data
                /\ cache' = cache]_vars

\* a get returned, a TTL after the set, the bytes of an entry that lies
\* below two directories
LaterGetReturnedBytes ==
    /\ ttl > 0
    /\ op.kind = "get"
    /\ op.found
    /\ op.data = Serialize(sOK)
    /\ Len(Split(op.key)) = 3
    /\ now - cache[FullPath(op.key)].mtime = ttl

\* C24: for a non-empty key, a get of a key with no entry returns none with
\* no error; a get returns an error only when os.Stat fails with something
\* other than not-found or os.ReadFile fails; a get of an expired entry whose
\* os.Remove fails returns none with no error.
GetFailsOnlyOnStatOrRead ==
    (op.kind = "get" /\ op.key # <<>>) =>
        /\ (~op.existed /\ op.fault # "stat") => (~op.err /\ ~op.found /\ op.data = <<>>)
        /\ op.err =>
              \/ op.fault = "stat"
              \/ op.fault = "read" /\ op.existed /\ ~(ttl > 0 /\ op.expired)
        /\ op.err => (~op.found /\ op.data = <<>>)
        /\ (ttl > 0 /\ op.expired /\ op.fault = "remove") =>
              (~op.err /\ ~op.found /\ op.data = <<>>)

\* a get met an expired entry and could not delete it
ExpiredNotDeleted ==
    /\ ttl > 0
    /\ op.kind = "get"
    /\ op.expired
    /\ op.fault = "remove"
    /\ op.present
    /\ ~op.err

\* C25: a get or a set with the empty key returns an error, returns no
\* bytes, and leaves every file of the store as it was.
EmptyKeyRejected ==
    [][(now' = now /\ op'.kind \in {"get", "set"} /\ op'.key = <<>>) =>
          /\ op'.err
          /\ ~op'.found
          /\ (op'.kind = "get" => op'.data = <<>>)
          /\ cache' = cache]_vars

\* a set with the empty key was refused while the store held an entry
EmptyKeySetRefused ==
    /\ op.kind = "set"
    /\ op.key = <<>>
    /\ op.err
    /\ \E g \in Files : cache[g].exists

----------------------------------------------------------------------------
(* Rule evaluator *)

Matches(i) == Match(rules[i], ev.requ, ev.resp) = "yes"

SomeRuleMatches == \E i \in 1..Len(rules) : Matches(i)

FirstMatch == CHOOSE i \in 1..Len(rules) : Matches(i) /\ \A j \in 1..(i - 1) : ~Matches(j)

\* C9: should-cache is "some rule of the list matches" in whitelist mode and
\* its negation in blacklist mode; the evaluation stops at the first matching
\* rule, so the rules after it are not consulted and do not change the result.
FirstMatchDecides ==
    ev.n > 0 =>
        /\ ev.result = (IF mode = "whitelist" THEN SomeRuleMatches ELSE ~SomeRuleMatches)
        /\ SomeRuleMatches =>
              /\ ev.consulted = FirstMatch
              /\ \A tail \in RuleLists :
                    shouldBeCached(SubSeq(rules, 1, FirstMatch) \o tail, mode, ev.requ, ev.resp)
                        = ev.result

\* two rules both match and the second has a status-codes set
SecondRuleSkipped ==
    /\ ev.n > 0
    /\ Len(rules) = 2
    /\ Matches(1)
    /\ Matches(2)
    /\ rules[2].StatusCodes # <<>>
    /\ ev.consulted = 1

\* C10: with an empty ruleset should-cache is false for every request and
\* response in whitelist mode and true for every one in blacklist mode.
EmptyRulesetFollowsMode ==
    (ev.n > 0 /\ rules = <<>>) => (ev.result = (mode = "blacklist"))

\* the empty ruleset was evaluated in blacklist mode and said yes
EmptyRulesetEvaluated == ev.n > 0 /\ rules = <<>> /\ mode = "blacklist" /\ ev.result

\* the request's absolute URL string begins with the rule's base URI
UrlBegins(rule, requ) ==
    \E n \in 0..Len(URLString(requ)) : SubSeq(URLString(requ), 1, n) = rule.BaseURI

\* two method names that differ at most in letter case
SameIgnoringCase(a, b) ==
    \E names \in {{"GET", "Get", "get"}, {"POST", "post"}} : a \in names /\ b \in names

\* an exact three-digit pattern matches only that status; 'Nxx' matches every
\* status whose hundreds digit is N
PatternMatches(p, status) ==
    /\ Len(p) = 3
    /\ IsDigit(p[1])
    /\ \/ /\ IsDigit(p[2])
          /\ IsDigit(p[3])
          /\ 100 * DigitVal(p[1]) + 10 * DigitVal(p[2]) + DigitVal(p[3]) = status
       \/ /\ p[2] = "x"
          /\ p[3] = "x"
          /\ status \div 100 = DigitVal(p[1])

RuleConditions(rule, requ, resp) ==
    /\ UrlBegins(rule, requ)
    /\ \E i \in 1..Len(rule.Methods) : SameIgnoringCase(rule.Methods[i], requ.method)
    /\ \/ rule.StatusCodes = <<>>
       \/ \E i \in 1..Len(rule.StatusCodes) : PatternMatches(rule.StatusCodes[i], resp.status)

\* C11: a rule matches a (request, response) pair exactly when the URL
\* begins with its base URI, the method equals one of its methods ignoring
\* case, and its status-codes set is empty or has a pattern matching the
\* status (exact three digits, or Nxx for the hundreds digit N); a one-rule
\* whitelist then caches exactly the pairs that meet the three conditions.
MatchIsThreeConditions ==
    ev.n > 0 =>
        /\ \A i \in 1..Len(rules) : Matches(i) <=> RuleConditions(rules[i], ev.requ, ev.resp)
        /\ (Len(rules) = 1 /\ mode = "whitelist") =>
              (ev.result <=> RuleConditions(rules[1], ev.requ, ev.resp))

\* a rule matched through a method in another letter case and a class pattern
MatchedByClassPattern ==
    /\ ev.n > 0
    /\ rules = <<ruleFoo2xx>>
    /\ mode = "whitelist"
    /\ ev.requ = rFoo
    /\ ev.resp.status = 201
    /\ ev.result

\* prefix and method alone
PrefixAndMethod(rule, requ) ==
    /\ UrlBegins(rule, requ)
    /\ \E i \in 1..Len(rule.Methods) : SameIgnoringCase(rule.Methods[i], requ.method)

\* C12: called with no response, the evaluator returns a boolean and does
\* not fail; a rule with a non-empty status-codes set counts as not matching
\* and a rule with an empty one is decided by prefix and method alone.
NoResponseStatusRulesSkipped ==
    (ev.n > 0 /\ IsNil(ev.resp)) =>
        /\ ~ev.panicked
        /\ LET matched == \E i \in 1..Len(rules) :
                              rules[i].StatusCodes = <<>> /\ PrefixAndMethod(rules[i], ev.requ)
           IN  ev.result = (IF mode = "whitelist" THEN matched ELSE ~matched)

----------------------------------------------------------------------------
(* Key deriver *)

\* the host in lower case
LowerHost(h) == [i \in 1..Len(h) |-> IF h[i] = "Origin.Test" THEN "origin.test" ELSE h[i]]

\* the host without its trailing default port
StripPort(h) == IF h # <<>> /\ h[Len(h)] \in {":80", ":443"} THEN SubSeq(h, 1, Len(h) - 1) ELSE h

\* the fields of the request fingerprint agree
SameFingerprint(a, b) ==
    /\ a.scheme = b.scheme
    /\ StripPort(LowerHost(a.host)) = StripPort(LowerHost(b.host))
    /\ a.path = b.path
    /\ a.method = b.method
    /\ a.query = b.query

\* the fields the deriver reads agree
SameKeyedFields(a, b) ==
    /\ StripPort(a.host) = StripPort(b.host)
    /\ a.path = b.path
    /\ a.method = b.method
    /\ a.query = b.query
    /\ \A h \in {"Host", "Accept", "Accept-Encoding", "Accept-Language", "Content-Type"} :
          h \in ReqHeaderNames => a.header[h] = b.header[h]
    /\ a.body = b.body

RECURSIVE Filename(_)
Filename(key) ==
    IF \E i \in 1..Len(key) : key[i] = "/"
    THEN Filename(Tail(key))
    ELSE key

HasAtom(str, a) == \E i \in 1..Len(str) : str[i] = a

AddsDefaultPort(a, b) ==
    /\ \/ a.scheme = "http" /\ b.host = a.host \o <<":80">>
       \/ a.scheme = "https" /\ b.host = a.host \o <<":443">>
    /\ b = [a EXCEPT !.host = b.host]

\* C15: a request whose host carries the default port of its scheme derives
\* the key of the same request without the port.
DefaultPortSameKey ==
    (kd.n = 2 /\ (AddsDefaultPort(kd.prev, kd.requ) \/ AddsDefaultPort(kd.requ, kd.prev)))
        => kd.key = kd.prevKey

\* an https request with :443 was derived right after the one without it
HttpsPortPairSeen ==
    /\ kd.n = 2
    /\ kd.prev.scheme = "https"
    /\ AddsDefaultPort(kd.prev, kd.requ)
    /\ kd.key = kd.prevKey

\* a and b differ at most in the letter case of the host and of the method
SameUpToCase(a, b) ==
    /\ LowerHost(a.host) = LowerHost(b.host)
    /\ ToUpper(a.method) = ToUpper(b.method)
    /\ a = [b EXCEPT !.host = a.host, !.method = a.method]

\* C16: the key has the host in lower case and the method in upper case, so
\* two requests that differ only in the letter case of host or method derive
\* the same key.
CaseNormalizedKey ==
    /\ kd.n > 0 =>
          /\ ~HasAtom(kd.key, "Origin.Test")
          /\ Filename(kd.key)[1] = ToUpper(kd.requ.method)
    /\ (kd.n = 2 /\ SameUpToCase(kd.requ, kd.prev)) => kd.key = kd.prevKey

----------------------------------------------------------------------------
(* Response codec *)

\* C18: Deserialize(Serialize(response)) succeeds for every response and
\* yields the same status, the same headers (same values in the same order
\* per name) and the same body.
CodecRoundTrips ==
    cd.kind = "roundtrip" =>
        /\ ~cd.err
        /\ ~cd.panicked
        /\ cd.out.status = cd.resp.status
        /\ cd.out.header = cd.resp.header
        /\ cd.out.body = cd.resp.body

\* the bytes begin with a status line
BeginsWithStatusLine(b) ==
    /\ Len(b) >= 5
    /\ b[1] = "HTTP/1.1 "
    /\ \A i \in 2..4 : IsDigit(b[i])
    /\ b[5] = "\r\n"

\* C19: on every byte string that does not start with the magic prefix, the
\* empty one and those shorter than the prefix included, Deserialize returns
\* a corrupt-entry error: no response, no abort; and so it does when the
\* bytes after the prefix are no HTTP response.
BadBytesAreCorruptEntry ==
    cd.kind = "decode" =>
        /\ ~HasPrefix(cd.data, PREFIX) =>
              (cd.err /\ ~cd.panicked /\ IsNil(cd.out))
        /\ (/\ HasPrefix(cd.data, PREFIX)
            /\ ~BeginsWithStatusLine(SubSeq(cd.data, Len(PREFIX) + 1, Len(cd.data)))) =>
              (cd.err /\ ~cd.panicked /\ IsNil(cd.out))

\* the bytes are the beginning of an encoded response, not all of it
IsPartialEntry(b) ==
    \E S \in UpstreamResponses :
        Len(b) < Len(Serialize(S)) /\ b = SubSeq(Serialize(S), 1, Len(b))

\* C20: a lookup that finds a partially written file is never a hit: the
\* decode fails, the request is treated as a miss and no response built
\* from the partial bytes is returned for the client.
PartialFileIsMiss ==
    (op.kind = "lookup" /\ op.existed /\ IsPartialEntry(op.data)) =>
        (~last.hit /\ IsNil(last.resp))

----------------------------------------------------------------------------
(* Concurrent writers of one key *)

\* C21: when the requests in flight for one key have all missed, fetched and
\* written, the store holds one entry, under that key, and its bytes are in
\* full the encoded response of the writer that wrote last.
LastWriterWins ==
    (\A s \in Slots : slots[s].pc = "done" /\ slots[s].fetched /\ slots[s].wrote) =>
        /\ op.kind = "set"
        /\ cache[FullPath(op.key)].exists
        /\ cache[FullPath(op.key)].data = op.data
        /\ op.data = Serialize(last.up)
        /\ \A g \in Files : cache[g].exists => g = FullPath(op.key)

----------------------------------------------------------------------------
(* Cert store *)

\* C22: under sessions that call Fetch at the same time no read or write of
\* the host-to-certificate map overlaps a write of another session, no
\* session is ended by the runtime, every Fetch whose minting did not fail
\* returns a certificate of its host, and the map holds under each host a
\* certificate of that host.
CertStoreAtomic ==
    /\ ~cs.raced
    /\ ~cs.crashed
    /\ \A s \in Slots :
          (cs.sess[s].pc = "done" /\ ~cs.sess[s].err) =>
              (cs.sess[s].ret.host = cs.sess[s].host /\ cs.sess[s].ret.serial > 0)
    /\ \A h \in CertHosts : cs.certs[h] # NoCert => cs.certs[h].host = h

\* C36: in a series of Fetch calls that follow one another, a Fetch for a
\* host that has a certificate returns that certificate without minting and
\* a stored certificate is never replaced; a Fetch whose minting fails
\* returns an error and no certificate and leaves the store as it was, and a
\* Fetch for a host without a certificate calls the minting function.
FetchIsMemoized ==
    [][/\ \A s \in Slots :
             LET a == cs.sess[s]
                 b == cs'.sess[s]
             IN  /\ (a.pc \in {"idle", "done"} /\ b # a) =>
                       /\ cs'.certs = cs.certs
                       /\ cs'.minted = cs.minted
                       /\ IF cs.certs[b.host] # NoCert
                          THEN b.pc = "done" /\ ~b.err /\ b.ret = cs.certs[b.host]
                          ELSE b.pc = "gen"
                 /\ (a.pc = "gen" /\ b.pc = "done") =>
                       /\ b.err
                       /\ b.ret = NoCert
                       /\ cs'.certs = cs.certs
                 /\ (a.pc = "writing" /\ b.pc = "done") =>
                       /\ ~b.err
                       /\ b.ret.host = b.host
                       /\ b.ret.serial > 0
                       /\ cs'.certs = [cs.certs EXCEPT ![b.host] = b.ret]
       /\ \A h \in CertHosts : cs.certs[h] # NoCert => cs'.certs[h] = cs.certs[h]
       /\ ~cs'.raced
       /\ ~cs'.crashed]_vars

\* two Fetch calls for one host have returned the same certificate, the one
\* the store holds, and the minting function has succeeded once
SecondFetchMemoized ==
    \E h \in CertHosts :
        /\ \A s \in {1, 2} :
              /\ cs.sess[s].pc = "done"
              /\ cs.sess[s].host = h
              /\ ~cs.sess[s].err
              /\ cs.sess[s].ret = cs.certs[h]
        /\ cs.certs[h] # NoCert
        /\ cs.minted = 1

----------------------------------------------------------------------------
(* Tunnels *)

\* C28: a connection to the transparent-TLS listener whose ClientHello
\* cannot be parsed or has no SNI hands no request to the engine; one with
\* SNI h hands it exactly one CONNECT request, with authority h:443 and the
\* remote address of the socket.
OneConnectPerSNI ==
    tun.conn = "tls" =>
        IF ~tun.hello.parses \/ tun.hello.sni = <<>>
        THEN tun.handed = <<>> /\ tun.action = "none"
        ELSE /\ Len(tun.handed) = 1
             /\ tun.handed[1].method = "CONNECT"
             /\ tun.handed[1].authority = tun.hello.sni \o <<":443">>
             /\ tun.handed[1].remote = tun.remote
             /\ tun.action # "none"

\* the listener dropped a connection without SNI after a tunnel had carried
\* a request
DroppedWithoutSNI ==
    /\ tun.conn = "tls"
    /\ tun.hello = Hello(TRUE, <<>>)
    /\ tun.handed = <<>>
    /\ last.pc = "done"

\* C29: the interception flag alone decides the tunnel mode: enabled, every
\* CONNECT is intercepted, with or without a CA that loads; disabled, every
\* CONNECT is tunnelled blind, and the traffic of a blind tunnel neither
\* reads nor writes the cache.
TunnelModeByFlagAlone ==
    [][/\ tun'.action # "none" =>
             tun'.action = (IF tun'.enabled THEN "mitm" ELSE "blind")
       /\ (tun.action = "blind" /\ nreq' = nreq + 1) =>
             /\ cache' = cache
             /\ ~last'.hit
             /\ last'.userData.key = <<>>
             /\ last'.resp = last'.up]_vars

----------------------------------------------------------------------------
(* Proxy engine: what the client gets and what the store keeps *)

\* the request as the client sent it carries a non-empty X-Cache-Bypass
IsBypass(req) == HeaderGet(req.header, "X-Cache-Bypass") # ""

XCache(resp) == resp.header["X-Cache"]

\* the entry under the request's key is there and within TTL
LiveEntry(req) ==
    LET f == cache[FileOf(req)] IN f.exists /\ (ttl = 0 \/ now - f.mtime <= ttl)

HitSkipsUpstream ==
    /\ (last.pc = "done" /\ last.hit) =>
          /\ ~last.fetched
          /\ IsNil(last.up)
          /\ XCache(last.resp) = <<"HIT">>
    /\ \A s \in Slots : slots[s].pc = "forward" => ~slots[s].hit

\* an https request was answered by a hit
HttpsHitSeen == last.pc = "done" /\ last.hit /\ last.req.scheme = "https"

KeyText(key) ==
    CASE key = GenerateKey(rFoo, FALSE).key -> "origin.test/foo/GET.bin"
      [] key = GenerateKey(rBar, FALSE).key -> "origin.test/bar/GET.bin"
      [] OTHER -> ""

\* C26: a response served from the cache carries X-Cache-File with the
\* relative key of the entry it was read from as its value, and a response
\* whose X-Cache is not HIT carries no X-Cache-File.
HitCarriesCacheFile ==
    last.pc = "done" =>
        /\ last.hit => last.resp.header["X-Cache-File"] = <<KeyText(last.userData.key)>>
        /\ HeaderGet(last.resp.header, "X-Cache") # "HIT" =>
              last.resp.header["X-Cache-File"] = <<>>

\* the transparent request w as the explicit request it stands for
Explicit(req, host) == [req EXCEPT !.scheme = "http", !.host = host]

\* the request r with Host h was taken into the pipeline like the explicit
\* request it stands for: x is the task's record after the OnRequest filter
SamePipeline(x, r, h, files) ==
    LET o == OnRequest(Explicit(r, h), files, ttl, now, FALSE, "none") IN
    /\ x.out = o.req
    /\ x.out.scheme = "http"
    /\ x.out.host = h
    /\ x.userData = [o.userData EXCEPT !.source = SrcHTTPTransparent]
    /\ x.hit = o.hit

\* C27: an origin-form request with an empty Host is answered 400 and takes
\* no step of the pipeline: no key, no lookup, no fetch, no write; with a
\* non-empty Host it is rewritten to scheme http and that host, tagged
\* http-transparent, and taken through the pipeline of an explicit request.
TransparentNeedsHost ==
    [][/\ (nreq' = nreq + 1 /\ last' # last /\ ~IsAbs(last'.req)) =>
             IF last'.host = <<>>
             THEN /\ last'.resp.status = 400
                  /\ last'.userData = NoUserData
                  /\ ~last'.hit /\ ~last'.fetched /\ ~last'.wrote
                  /\ cache' = cache
                  /\ slots' = slots
             ELSE /\ SamePipeline(last', last'.req, last'.host, cache)
                  /\ last'.hit
                  /\ XCache(last'.resp) = <<"HIT">>
       /\ \A s \in Slots :
             (slots[s].pc = "idle" /\ slots'[s].pc = "forward" /\ ~IsAbs(slots'[s].req)) =>
                 /\ slots'[s].host # <<>>
                 /\ SamePipeline(slots'[s], slots'[s].req, slots'[s].host, cache)
                 /\ cache' = OnRequest(Explicit(slots'[s].req, slots'[s].host), cache, ttl,
                                       now, FALSE, "none").files
       /\ \A s \in Slots :
             (slots[s].pc = "forward" /\ slots'[s].pc = "idle" /\ ~IsAbs(slots[s].req)) =>
                 /\ last'.fetched
                 /\ last'.userData.source = SrcHTTPTransparent
                 /\ cache' = OnResponse(last'.up, slots[s].out, slots[s].userData, cache, now,
                                        rules, mode, "none", 0).files]_vars

\* an origin-form request without Host was answered 400 while the store held
\* an entry and an origin-form request with a Host was waiting for the origin
RejectedBesideEntry ==
    /\ last.pc = "done"
    /\ ~IsAbs(last.req)
    /\ last.host = <<>>
    /\ last.resp.status = 400
    /\ cache[FileOf(rFoo)].exists
    /\ \E s \in Slots :
          /\ slots[s].pc = "forward"
          /\ ~IsAbs(slots[s].req)
          /\ slots[s].userData.source = SrcHTTPTransparent

\* C30: when the upstream fetch fails and there is no upstream response, the
\* client gets 502 Bad Gateway and the cache is left as it was.
UpstreamFailureIs502 ==
    [][\A s \in Slots :
          (slots[s].pc = "forward" /\ slots'[s].pc = "idle" /\ IsNil(last'.up)) =>
              /\ last'.resp.status = 502
              /\ ~last'.wrote
              /\ cache' = cache]_vars

\* the bytes are an encoded response cut before its body begins
CutBeforeBody(data) ==
    \E S \in UpstreamResponses :
        \E n \in 0..(Len(Serialize(S)) - Len(S.body) - 1) : data = SubSeq(Serialize(S), 1, n)

\* the lookup recorded in o fails: os.Stat fails, or the entry is there and
\* within TTL and either os.ReadFile fails or its bytes do not decode
LookupFails(o) ==
    \/ o.fault = "stat"
    \/ /\ o.existed
       /\ ~o.expired
       /\ o.fault = "read" \/ CutBeforeBody(o.data)

\* C32: when the pre-flight lookup fails on a read error or on an entry that
\* does not decode, the request is forwarded upstream as it came, the lookup
\* leaves the store as it was (the entry stays), and the client gets the
\* upstream response.
LookupFailureIsMiss ==
    [][/\ (nreq' = nreq + 1 /\ op'.kind = "lookup" /\ LookupFails(op')) =>
             /\ op'.err
             /\ cache' = cache
             /\ last' = last
             /\ \E s \in Slots :
                   /\ slots[s].pc = "idle"
                   /\ slots'[s].pc = "forward"
                   /\ slots'[s].failed
                   /\ ~slots'[s].hit
                   /\ IsNil(slots'[s].resp)
                   /\ slots'[s].out = slots'[s].req
       /\ \A s \in Slots :
             (slots[s].pc = "forward" /\ slots'[s].pc = "idle" /\ slots[s].failed) =>
                 /\ last'.fetched
                 /\ ~last'.hit
                 /\ last'.req = slots[s].req
                 /\ last'.resp.status = last'.up.status
                 /\ last'.resp.body = last'.up.body
                 /\ \A h \in RespHeaderNames \ {"X-Cache"} :
                       last'.resp.header[h] = last'.up.header[h]
                 /\ HeaderGet(last'.resp.header, "X-Cache") # "HIT"]_vars

\* a lookup has just failed on an entry that does not decode and the entry
\* is still there, after a request whose lookup failed got the upstream
\* response
CorruptEntryKept ==
    /\ op.kind = "lookup"
    /\ op.fault = "none"
    /\ op.err
    /\ CutBeforeBody(op.data)
    /\ cache[FullPath(op.key)].exists
    /\ cache[FullPath(op.key)].data = op.data
    /\ \E s \in Slots : slots[s].pc = "forward" /\ slots[s].failed
    /\ last.pc = "done"
    /\ last.failed
    /\ last.fetched
    /\ last.resp.body = sOK.body

\* C33: a failure inside the caching step of post-flight does not change
\* what the client gets: the status, the headers (X-Cache aside) and the
\* complete body of the upstream response.
CachingFailureUnseen ==
    [][\A s \in Slots :
          (slots[s].pc = "forward" /\ slots'[s].pc = "idle" /\ op'.fault # "none") =>
              /\ last'.fetched
              /\ last'.resp.status = last'.up.status
              /\ last'.resp.body = last'.up.body
              /\ \A h \in RespHeaderNames \ {"X-Cache"} :
                    last'.resp.header[h] = last'.up.header[h]]_vars

\* C34: an entry leaves the store only in the lookup of a request that is no
\* bypass, whose key names that entry, and that finds it older than a TTL
\* above zero; no post-flight, hit, lookup of another key, bypass request
\* or tick of the clock removes an entry.
EvictionIsLazy ==
    [][\A f \in Files :
          (cache[f].exists /\ ~cache'[f].exists) =>
              /\ ttl > 0
              /\ now - cache[f].mtime > ttl
              /\ now' = now
              /\ nreq' = nreq + 1
              /\ \E s \in Slots :
                    /\ slots[s].pc = "idle"
                    /\ slots'[s].pc = "forward"
                    /\ ~slots'[s].hit
                    /\ HeaderGet(slots'[s].req.header, "X-Cache-Bypass") = ""
                    /\ FileOf(slots'[s].req) = f
              /\ \A g \in Files \ {f} : cache'[g] = cache[g]]_vars

\* a lookup has just removed the expired entry of its key while the entry
\* of the other key, itself older than the TTL, is still there
ExpiredEntryOutlivesOthers ==
    /\ ttl > 0
    /\ now = MaxTime
    /\ ~cache[FileOf(rFoo)].exists
    /\ \E s \in Slots : slots[s].pc = "forward" /\ slots[s].req = rFoo
    /\ cache[FileOf(rBar)].exists
    /\ now - cache[FileOf(rBar)].mtime > ttl

\* C35: a request answered from the cache leaves the store as it was, the
\* entry's bytes and modification time included, and is answered only while
\* the entry's last write is at most a TTL old; an entry is written or
\* rewritten only by the post-flight of a response fetched upstream.
HitLeavesEntryAlone ==
    [][/\ (nreq' = nreq + 1 /\ slots' = slots /\ last'.hit) =>
             /\ cache' = cache
             /\ ~last'.wrote
             /\ ~last'.fetched
             /\ cache[FileOf(last'.req)].exists
             /\ ttl > 0 => now - cache[FileOf(last'.req)].mtime <= ttl
       /\ \A f \in Files :
             (cache'[f].exists /\ cache'[f] # cache[f]) =>
                 /\ \E s \in Slots : slots[s].pc = "forward" /\ slots'[s].pc = "idle"
                 /\ last'.fetched
                 /\ last'.wrote
                 /\ cache'[f].mtime = now]_vars

\* the third request was answered from an entry written a TTL before
HitAtEndOfTTL ==
    /\ ttl > 0
    /\ nreq >= 3
    /\ last.pc = "done"
    /\ last.hit
    /\ now - cache[FileOf(last.req)].mtime = ttl

\* the rules exclude the request from caching whatever the origin answers
ExcludedByRules(req) == \A S \in EvalResponses : ~shouldBeCached(rules, mode, req, S)

\* C37: a request without X-Cache-Bypass that the rules exclude from caching
\* is not answered from the cache, also when a live entry lies under its
\* key: it is fetched upstream and the client gets X-Cache: DISABLED.
ExcludedNeverFromCache ==
    (last.pc = "done" /\ ~IsBypass(last.req) /\ ExcludedByRules(last.req)) =>
        /\ last.fetched
        /\ ~last.hit
        /\ XCache(last.resp) = <<"DISABLED">>

\* C38: under every interleaving of the tasks, on plain connections and
\* inside tunnels, the context a request's post-flight works with is the one
\* its own pre-flight left: the bypass flag is set exactly when that request
\* carried X-Cache-Bypass, the key is the key of that request, post-flight
\* writes under no other key, and the post-flight of a fetched response
\* comes after the pre-flight of its request.
ContextIsPrivate ==
    [][/\ \A s \in Slots :
             (slots[s].pc = "idle" /\ slots'[s].pc = "forward") =>
                 /\ slots'[s].userData.bypass = IsBypass(slots'[s].req)
                 /\ ~IsBypass(slots'[s].req) =>
                       slots'[s].userData.key = GenerateKey(slots'[s].req, FALSE).key
       /\ (last' # last /\ last'.pc = "done") =>
             /\ last'.userData.bypass = IsBypass(last'.req)
             /\ ~IsBypass(last'.req) =>
                   last'.userData.key = GenerateKey(last'.req, FALSE).key
             /\ (XCache(last'.resp) = <<"BYPASS">>) <=> IsBypass(last'.req)
             /\ \A f \in Files :
                   cache'[f] # cache[f] => (f = FileOf(last'.req) /\ ~IsBypass(last'.req))
             /\ last'.fetched =>
                   \E s \in Slots :
                       /\ slots[s].pc = "forward"
                       /\ slots'[s].pc = "idle"
                       /\ slots[s].req = last'.req
                       /\ slots[s].userData = last'.userData]_vars

\* inside a tunnel the third request, one without the bypass header, was
\* fetched and cached under its own key while a request of another key was
\* in flight in the other task
TunnelRequestsApart ==
    /\ last.pc = "done"
    /\ last.tunnel
    /\ last.req = Secure(rFoo)
    /\ last.fetched
    /\ last.wrote
    /\ XCache(last.resp) = <<"MISS">>
    /\ nreq = 3
    /\ \E s \in Slots : slots[s].pc = "forward" /\ slots[s].req.path = rBar.path

\* the cleaned path lies below the cache root and is not the root
InsideRoot(path) ==
    /\ HasPrefix(path, cacheDir \o <<"/">>)
    /\ Len(path) > Len(cacheDir) + 1
    /\ \A i \in 1..Len(path) : path[i] # ".."

\* C39: for every request URL, with dot segments, empty segments or an
\* empty host, the file the store opens for the derived key lies inside the
\* cache root and is not the root itself.
KeyStaysInsideRoot == kd.n > 0 => InsideRoot(FullPath(kd.key))

\* the origin of a request: scheme, host name, and the port written in the
\* URL or else the default port of the scheme
HasPort(h) == h # <<>> /\ h[Len(h)] \in PortAtoms
HostName(h) == IF HasPort(h) THEN SubSeq(h, 1, Len(h) - 1) ELSE h
EffectivePort(r) ==
    IF HasPort(r.host) THEN r.host[Len(r.host)]
    ELSE IF r.scheme = "https" THEN ":443" ELSE ":80"
SameOrigin(a, b) ==
    /\ a.scheme = b.scheme
    /\ HostName(a.host) = HostName(b.host)
    /\ EffectivePort(a) = EffectivePort(b)

\* C40: two requests that differ in scheme or in effective port derive
\* different keys.
OriginsNeverShareKey ==
    (kd.n = 2 /\ ~SameOrigin(kd.prev, kd.requ)) => kd.key # kd.prevKey

\* C31: every request the engine has forwarded completes: also when the
\* origin never answers, the round trip is ended by a timeout of the engine
\* and the client gets its response.
ForwardedRequestCompletes ==
    \A s \in Slots : (slots[s].pc = "forward") ~> (slots[s].pc = "idle")

\* C6: the client sees X-Cache: HIT only on a response served from the
\* proxy's own cache; a response fetched upstream is never reported as HIT,
\* whatever X-Cache the origin set, and is cached when the rules say so.
HitOnlyFromCache ==
    last.pc = "done" =>
        /\ (HeaderGet(last.resp.header, "X-Cache") = "HIT" => (last.hit /\ ~last.fetched))
        /\ (last.fetched /\ ~last.userData.bypass
                /\ shouldBeCached(rules, mode, last.out, last.up)) =>
              (last.wrote /\ last.stored)

\* C7: X-Cache: MISS is on the delivered response when, and only when, the
\* response was fetched upstream and the store holds it under the request's
\* key when post-flight ends.
MissIffCached ==
    last.pc = "done" =>
        /\ HeaderGet(last.resp.header, "X-Cache") = "MISS" =>
              (last.fetched /\ last.wrote /\ last.stored)
        /\ last.wrote => HeaderGet(last.resp.header, "X-Cache") = "MISS"

\* C8: a non-bypass request whose fetched response the rules exclude gets
\* X-Cache: DISABLED and writes no entry.
ExcludedIsDisabled ==
    (/\ last.pc = "done"
     /\ last.fetched
     /\ ~IsBypass(last.req)
     /\ ~shouldBeCached(rules, mode, last.out, last.up)) =>
        /\ XCache(last.resp) = <<"DISABLED">>
        /\ ~last.wrote

====
